---- MODULE Spec2Model ----
(***************************************************************************)
(* Model of the candle dashboard page (src/src/app/page.tsx, first Home    *)
(* component): the two candle buffers (internal GraphQL feed and Binance   *)
(* feed), the snapshot loaders that seed them and the live feeds that      *)
(* upsert into them.                                                       *)
(*                                                                         *)
(* JavaScript values are encoded as integers: a finite number is itself,   *)
(* NaN is a negative sentinel.  A mapper that returns `Candle | null`      *)
(* returns a sequence of length 0 (null) or 1 (the candle).                *)
(***************************************************************************)
EXTENDS Integers, Sequences, FiniteSets, TLC

\* ---------------------------------------------------------------- bounds
\* page.tsx:89 sets MAX_CANDLES = 500; the model scales the capacity down.
\* Every operator below is written for an arbitrary capacity.
MAX_CANDLES == 2

\* Open times (epoch ms, scaled): one more than the capacity, so that a full
\* buffer can still receive a candle it does not hold.
Times == 1..(MAX_CANDLES + 1)

\* A snapshot response may carry more rows than the capacity (the REST proxy
\* asks for 600 rows, the capacity is 500).
MaxRows == MAX_CANDLES + 1

\* The requests of the stream route and the frames enqueued on one response.
MaxRequests == 3
MaxFrames == 2

\* ------------------------------------------------------- JavaScript values
NaN == 0 - 1

\* Number.isNaN
IsNaN(x) == x = NaN

\* Infinity, which parseFloat("Infinity") yields
Infinity == 0 - 4

\* parseFloat on the raw strings the model draws prices from
parseFloat(s) ==
  CASE s = "1" -> 1
    [] s = "2" -> 2
    [] s = "Infinity" -> Infinity
    [] OTHER -> NaN

\* Date.parse on a raw candleTime: raw time k > 0 stands for the ISO string of
\* epoch k, 0 for a string that is not a date.
DateParse(t) == IF t > 0 THEN t ELSE NaN

\* null and undefined, for the fields that may hold them
Null == 0 - 2
Undefined == 0 - 3

\* ------------------------------------------------------------- sequences
\* The elements of an array.
Range(s) == {s[i] : i \in 1..Len(s)}

\* Array.prototype.slice(-n): the last n elements; slice(-0) is slice(0),
\* the whole array.
SliceLast(s, n) ==
  IF n = 0 \/ n >= Len(s) THEN s
  ELSE SubSeq(s, Len(s) - n + 1, Len(s))

\* One step of a stable insertion: c goes after every element whose openTime
\* is less than or equal to its own.
RECURSIVE InsertByOpenTime(_, _)
InsertByOpenTime(c, s) ==
  IF s = <<>> THEN <<c>>
  ELSE IF s[Len(s)].openTime <= c.openTime THEN Append(s, c)
  ELSE Append(InsertByOpenTime(c, SubSeq(s, 1, Len(s) - 1)), s[Len(s)])

\* The sort with the comparator reversed, (a, b) => b.openTime - a.openTime.
SortByOpenTimeDescending(s) ==
  LET Reverse(q) == [i \in 1..Len(q) |-> q[Len(q) + 1 - i]]
      RECURSIVE Asc(_)
      Asc(q) == IF q = <<>> THEN <<>>
                ELSE InsertByOpenTime(q[Len(q)], Asc(SubSeq(q, 1, Len(q) - 1)))
  IN Reverse(Asc(s))

\* Array.prototype.sort((a, b) => a.openTime - b.openTime): a stable sort
\* (ES2019) ascending by openTime.
RECURSIVE SortByOpenTime(_)
SortByOpenTime(s) ==
  IF s = <<>> THEN <<>>
  ELSE InsertByOpenTime(s[Len(s)], SortByOpenTime(SubSeq(s, 1, Len(s) - 1)))

\* Array.prototype.findIndex(item => item.openTime === t): the first index,
\* 0 when there is none (the code's -1).
findIndex(s, t) ==
  IF \E i \in 1..Len(s) : s[i].openTime = t
  THEN CHOOSE i \in 1..Len(s) :
         /\ s[i].openTime = t
         /\ \A j \in 1..(i - 1) : s[j].openTime # t
  ELSE 0

\* The array without its element at index i.
RemoveAt(s, i) == SubSeq(s, 1, i - 1) \o SubSeq(s, i + 1, Len(s))

\* setTimeout(callback): the callback joins the pending timeouts.
setTimeout(pending, callback) == Append(pending, callback)

\* clearTimeout(ref) with ref <<>> (null) or <<callback>>: the timeout the
\* reference designates is no longer pending.
clearTimeout(pending, ref) ==
  IF ref = <<>> \/ \A i \in 1..Len(pending) : pending[i] # ref[1]
  THEN pending
  ELSE RemoveAt(pending,
                CHOOSE i \in 1..Len(pending) :
                  /\ pending[i] = ref[1]
                  /\ \A j \in 1..(i - 1) : pending[j] # ref[1])

\* .filter(value => value !== null) on a list of mapper results, each <<>>
\* (null) or <<candle>>: the candles in list order.
RECURSIVE FilterNonNull(_)
FilterNonNull(s) ==
  IF s = <<>> THEN <<>>
  ELSE s[1] \o FilterNonNull(Tail(s))

\* ---------------------------------------------------------------- mappers
\* The Candle object literal of the four mappers.
Candle(openTime, open, high, low, close, volume) ==
  [openTime |-> openTime, open |-> open, high |-> high, low |-> low,
   close |-> close, volume |-> IF IsNaN(volume) THEN Undefined ELSE volume]

AnyNaN(openTime, open, high, low, close) ==
  IsNaN(openTime) \/ IsNaN(open) \/ IsNaN(high) \/ IsNaN(low) \/ IsNaN(close)

\* The subscription mapper without the Number.isNaN test.
mapSubscriptionKlineUnchecked(kline) ==
  <<Candle(DateParse(kline.candleTime), parseFloat(kline.open),
           parseFloat(kline.high), parseFloat(kline.low),
           parseFloat(kline.close),
           IF kline.volume = Null THEN 0 ELSE kline.volume)>>

\* page.tsx:181-208.  kline.volume is a number or null:
\* typeof volume === "number" ? volume : Number(volume ?? 0)
mapSubscriptionKlineToCandle(kline) ==
  LET openTime == DateParse(kline.candleTime)
      open == parseFloat(kline.open)
      high == parseFloat(kline.high)
      low == parseFloat(kline.low)
      close == parseFloat(kline.close)
      volume == IF kline.volume = Null THEN 0 ELSE kline.volume
  IN IF AnyNaN(openTime, open, high, low, close) THEN <<>>
     ELSE <<Candle(openTime, open, high, low, close, volume)>>

\* page.tsx:210-239.  model.candleTime ? Date.parse(model.candleTime) : NaN;
\* typeof volume === "number" ? volume : Number(volume ?? NaN)
mapModelToCandle(model) ==
  LET openTime == IF model.candleTime = Null THEN NaN
                  ELSE DateParse(model.candleTime)
      open == parseFloat(model.open)
      high == parseFloat(model.high)
      low == parseFloat(model.low)
      close == parseFloat(model.close)
      volume == IF model.volume = Null THEN NaN ELSE model.volume
  IN IF AnyNaN(openTime, open, high, low, close) THEN <<>>
     ELSE <<Candle(openTime, open, high, low, close, volume)>>

\* page.tsx:241-246
mapModelsToCandles(klines) ==
  SortByOpenTime(
    FilterNonNull([i \in 1..Len(klines) |-> mapModelToCandle(klines[i])]))

\* page.tsx:259-287
mapBinanceRestCandle(payload) ==
  LET openTime == payload.openTime
      open == parseFloat(payload.open)
      high == parseFloat(payload.high)
      low == parseFloat(payload.low)
      close == parseFloat(payload.close)
      volume == parseFloat(payload.volume)
  IN IF AnyNaN(openTime, open, high, low, close) THEN <<>>
     ELSE <<Candle(openTime, open, high, low, close, volume)>>

\* page.tsx:289-317
mapBinanceStreamCandle(payload) ==
  LET openTime == payload.startTime
      open == parseFloat(payload.open)
      high == parseFloat(payload.high)
      low == parseFloat(payload.low)
      close == parseFloat(payload.close)
      volume == parseFloat(payload.volume)
  IN IF AnyNaN(openTime, open, high, low, close) THEN <<>>
     ELSE <<Candle(openTime, open, high, low, close, volume)>>

\* ----------------------------------------------------------------- clients
\* A getter that builds a client on every call.
getClientAlwaysBuilds(current) ==
  <<(IF current = <<>> THEN 0 ELSE current[1]) + 1>>

\* page.tsx:169-179, getWsClient: createClient when wsClient is null; the
\* value is the module variable after the call, which is what is returned.
getWsClient(current) == IF current = <<>> THEN <<1>> ELSE current

\* binanceClient.ts:5-10, getBinanceClient: binance() when client is null
getBinanceClient(current) == IF current = <<>> THEN <<1>> ELSE current

\* ------------------------------------------------------------ series store
\* page.tsx:132-160, fetchGraphQL on a response [ok, errors, data]: errors is
\* the length of payload.errors, data is <<>> (absent) or <<klines>>.  It
\* throws on a non-2xx status, on GraphQL errors and on missing data, and
\* returns payload.data otherwise.
fetchGraphQL(response) ==
  IF ~response.ok THEN [threw |-> TRUE, data |-> <<>>]
  ELSE IF response.errors > 0 THEN [threw |-> TRUE, data |-> <<>>]
  ELSE IF response.data = <<>> THEN [threw |-> TRUE, data |-> <<>>]
  ELSE [threw |-> FALSE, data |-> response.data[1]]

\* fetchCandles without the slice(-MAX_CANDLES).
fetchCandlesUntrimmed(klines) == mapModelsToCandles(klines)

\* page.tsx:725, the value fetchCandles resolves to for the rows of a
\* klines response: mapModelsToCandles(data.klines).slice(-MAX_CANDLES)
fetchCandles(klines) == SliceLast(mapModelsToCandles(klines), MAX_CANDLES)

\* page.tsx:891-894, the Binance snapshot mapping:
\* payload.candles.map(mapBinanceRestCandle).filter(non-null).slice(-MAX_CANDLES)
mapBinanceSnapshot(rows) ==
  SliceLast(
    FilterNonNull([i \in 1..Len(rows) |-> mapBinanceRestCandle(rows[i])]),
    MAX_CANDLES)

\* The updater without the re-sort after the append.
UpsertCandlesUnsorted(previous, candle) ==
  IF Len(previous) = 0 THEN <<candle>>
  ELSE LET existingIndex == findIndex(previous, candle.openTime)
       IN IF existingIndex # 0
          THEN [previous EXCEPT ![existingIndex] = candle]
          ELSE Append(SliceLast(previous, MAX_CANDLES - 1), candle)

\* The updater trimming from the wrong end: slice(0, MAX_CANDLES - 1).
UpsertCandlesDropNewest(previous, candle) ==
  IF Len(previous) = 0 THEN <<candle>>
  ELSE LET existingIndex == findIndex(previous, candle.openTime)
       IN IF existingIndex # 0
          THEN [previous EXCEPT ![existingIndex] = candle]
          ELSE SortByOpenTime(
                 Append(SubSeq(previous, 1, MAX_CANDLES - 1), candle))

\* The updater moving a replaced candle to the end of the list.
UpsertCandlesReplaceAtEnd(previous, candle) ==
  IF Len(previous) = 0 THEN <<candle>>
  ELSE LET existingIndex == findIndex(previous, candle.openTime)
       IN IF existingIndex # 0
          THEN Append(SubSeq(previous, 1, existingIndex - 1)
                        \o SubSeq(previous, existingIndex + 1, Len(previous)),
                      candle)
          ELSE SortByOpenTime(
                 Append(SliceLast(previous, MAX_CANDLES - 1), candle))

\* The updater without the findIndex branch: the candle is always appended.
UpsertCandlesAlwaysAppend(previous, candle) ==
  IF Len(previous) = 0 THEN <<candle>>
  ELSE SortByOpenTime(Append(SliceLast(previous, MAX_CANDLES - 1), candle))

\* page.tsx:1037-1057, the updater the subscription handler gives setCandles
UpsertCandles(previous, candle) ==
  IF Len(previous) = 0 THEN <<candle>>
  ELSE LET existingIndex == findIndex(previous, candle.openTime)
       IN IF existingIndex # 0
          THEN [previous EXCEPT ![existingIndex] = candle]
          ELSE SortByOpenTime(
                 Append(SliceLast(previous, MAX_CANDLES - 1), candle))

\* page.tsx:939-956, the updater the stream handler gives setBinanceCandles
UpsertBinanceCandles(previous, candle) ==
  IF Len(previous) = 0 THEN <<candle>>
  ELSE LET existingIndex == findIndex(previous, candle.openTime)
       IN IF existingIndex # 0
          THEN [previous EXCEPT ![existingIndex] = candle]
          ELSE SortByOpenTime(
                 Append(SliceLast(previous, MAX_CANDLES - 1), candle))

\* applyCandles merging the rows into the previous buffer.
applyCandlesMerging(previous, nextCandles) == previous \o nextCandles

\* page.tsx:703-705, applyCandles: setCandles(nextCandles)
applyCandles(previous, nextCandles) == nextCandles

\* page.tsx:896, setBinanceCandles(mappedCandles)
setBinanceSnapshot(previous, mappedCandles) == mappedCandles

\* page.tsx:633-637, latestCandle / latestBinanceCandle: the last element,
\* undefined (<<>> here) for an empty buffer
latest(buffer) == IF Len(buffer) = 0 THEN <<>> ELSE <<buffer[Len(buffer)]>>

\* ------------------------------------------------------- interval selector
\* page.tsx:90-91
TARGET_BAR_COUNT == 180
INTERVAL_OPTIONS == <<1, 3, 5, 15, 30, 60, 120, 240>>

\* The selector returning the last option that satisfies the bar target.
pickLastSatisfying(rangeMinutes) ==
  IF \E i \in 1..Len(INTERVAL_OPTIONS) :
       rangeMinutes <= TARGET_BAR_COUNT * INTERVAL_OPTIONS[i]
  THEN LET last == CHOOSE i \in 1..Len(INTERVAL_OPTIONS) :
                     /\ rangeMinutes <= TARGET_BAR_COUNT * INTERVAL_OPTIONS[i]
                     /\ \A j \in (i + 1)..Len(INTERVAL_OPTIONS) :
                          rangeMinutes > TARGET_BAR_COUNT * INTERVAL_OPTIONS[j]
       IN INTERVAL_OPTIONS[last]
  ELSE INTERVAL_OPTIONS[Len(INTERVAL_OPTIONS)]

\* The selector comparing with < instead of <=.
pickStrictlyBelow(rangeMinutes) ==
  IF \E i \in 1..Len(INTERVAL_OPTIONS) :
       rangeMinutes < TARGET_BAR_COUNT * INTERVAL_OPTIONS[i]
  THEN LET first == CHOOSE i \in 1..Len(INTERVAL_OPTIONS) :
                      /\ rangeMinutes < TARGET_BAR_COUNT * INTERVAL_OPTIONS[i]
                      /\ \A j \in 1..(i - 1) :
                           rangeMinutes >= TARGET_BAR_COUNT * INTERVAL_OPTIONS[j]
       IN INTERVAL_OPTIONS[first]
  ELSE INTERVAL_OPTIONS[Len(INTERVAL_OPTIONS)]

\* The selector falling back to the first option when none satisfies the
\* bar target.
pickFallsBackToFirst(rangeMinutes) ==
  IF \E i \in 1..Len(INTERVAL_OPTIONS) :
       rangeMinutes <= TARGET_BAR_COUNT * INTERVAL_OPTIONS[i]
  THEN LET first == CHOOSE i \in 1..Len(INTERVAL_OPTIONS) :
                      /\ rangeMinutes <= TARGET_BAR_COUNT * INTERVAL_OPTIONS[i]
                      /\ \A j \in 1..(i - 1) :
                           rangeMinutes > TARGET_BAR_COUNT * INTERVAL_OPTIONS[j]
       IN INTERVAL_OPTIONS[first]
  ELSE INTERVAL_OPTIONS[1]

\* page.tsx:319-327; rangeMinutes / option <= TARGET_BAR_COUNT is compared
\* without division: option is positive.
pickIntervalForRange(rangeMinutes) ==
  IF \E i \in 1..Len(INTERVAL_OPTIONS) :
       rangeMinutes <= TARGET_BAR_COUNT * INTERVAL_OPTIONS[i]
  THEN LET first == CHOOSE i \in 1..Len(INTERVAL_OPTIONS) :
                      /\ rangeMinutes <= TARGET_BAR_COUNT * INTERVAL_OPTIONS[i]
                      /\ \A j \in 1..(i - 1) :
                           rangeMinutes > TARGET_BAR_COUNT * INTERVAL_OPTIONS[j]
       IN INTERVAL_OPTIONS[first]
  ELSE INTERVAL_OPTIONS[Len(INTERVAL_OPTIONS)]

\* page.tsx:92-101, BINANCE_INTERVAL_MAP; "" stands for undefined
BinanceIntervalCode(interval) ==
  CASE interval = 1 -> "1m"
    [] interval = 3 -> "3m"
    [] interval = 5 -> "5m"
    [] interval = 15 -> "15m"
    [] interval = 30 -> "30m"
    [] interval = 60 -> "1h"
    [] interval = 120 -> "2h"
    [] interval = 240 -> "4h"
    [] OTHER -> ""

\* normalizeBinanceSymbol without the normalized.length === 0 test: USDT is
\* appended to the empty string.
normalizeWithoutEmptyCheck(symbol) ==
  CASE symbol = "" -> ""
    [] symbol = "--" -> "USDT"
    [] OTHER -> "BTCUSDT"

\* page.tsx:248-257 on the symbols of the model: non-alphanumerics removed,
\* upper-cased, USDT appended unless already the suffix
normalizeBinanceSymbol(symbol) ==
  CASE symbol = "" -> ""
    [] symbol = "--" -> ""
    [] symbol = "btc" -> "BTCUSDT"
    [] symbol = "BTC/USDT" -> "BTCUSDT"
    [] OTHER -> "BTCUSDT"

\* ------------------------------------------------------------------ inputs
\* Symbols the symbols query may return; "--" normalizes to "" for Binance.
Symbols == {"btc", "--"}

\* The intervals the model's user picks, a prefix of INTERVAL_OPTIONS.
Intervals == {1, 3}

\* Visible ranges (minutes) a zoom notification reports; 0 is a collapsed range.
ZoomRanges == {0, 60, 300}

\* A klines row / klineUpdated payload whose four prices are the same string.
Kline(interval, candleTime, price, volume) ==
  [interval |-> interval, candleTime |-> candleTime, open |-> price,
   high |-> price, low |-> price, close |-> price, volume |-> volume]

\* A /api/binance/candles row and a stream frame's candle.
BinanceRest(openTime, price) ==
  [openTime |-> openTime, open |-> price, high |-> price, low |-> price,
   close |-> price, volume |-> "1"]

BinanceStream(startTime, price) ==
  [startTime |-> startTime, open |-> price, high |-> price, low |-> price,
   close |-> price, volume |-> "1"]

SeqsUpTo(S, n) == UNION {[1..k -> S] : k \in 0..n}

\* Rows of a klines response: any order, repeated candle times allowed, a row
\* may fail to parse (candle time 0).
KlineRows == SeqsUpTo({Kline(1, t, "1", 5) : t \in {0} \cup Times}, MaxRows)

\* Rows of a /api/binance/candles response.
BinanceRows ==
  SeqsUpTo({BinanceRest(t, "1") : t \in Times} \cup {BinanceRest(1, "abc")},
           MaxRows)

\* What fetchCandles may resolve to (page.tsx:709-725).
KlineSnapshots == {fetchCandles(klines) : klines \in KlineRows}

\* What the Binance snapshot mapping may yield (page.tsx:891-894).
BinanceSnapshots == {mapBinanceSnapshot(rows) : rows \in BinanceRows}

\* klineUpdated payloads: the interval is any of the model's, the candle time
\* may be unparsable (0), the prices may be unparsable ("abc").
KlinePayloads ==
  {Kline(i, t, p, 5) : i \in Intervals, t \in Times, p \in {"1", "2"}}
    \cup {Kline(1, 0, "1", 5), Kline(1, 1, "abc", 5)}

\* Stream frames' candles.
StreamPayloads ==
  {BinanceStream(t, p) : t \in Times, p \in {"1", "2"}}
    \cup {BinanceStream(1, "abc")}

\* ------------------------------------------------------------------- state
VARIABLES
  selectedSymbol,       \* useState(""), page.tsx:614
  selectedInterval,     \* page.tsx:620
  intervalMode,         \* "auto" | number, page.tsx:619; 0 stands for "auto"
  symbolOptions,        \* page.tsx:615, as a set
  symbolsFetch,         \* the symbols query: "pending" | "done"
  candles,              \* page.tsx:616
  isStreaming,          \* page.tsx:617
  errorMessage,         \* page.tsx:618; "null" or the message's key
  refreshTimeout,       \* refreshTimeoutRef.current, page.tsx:631: <<>> (null) or
                        \* <<selection>>, the selection its callback closes over
  timers,               \* the timeouts set and neither fired nor cleared, each
                        \* the selection its callback closes over
  refreshInFlight,      \* the selections of the silent-refresh fetches in flight
  load,                 \* the initial loads in flight: [cancelled, stale]
  sub,                  \* the subscriptions not disposed: [active, stale]
  binanceCandles,       \* page.tsx:623
  binanceStatus,        \* page.tsx:624
  binanceErrorMessage,  \* page.tsx:627
  binanceLoad,          \* the Binance REST loads in flight: [cancelled, stale]
  source,               \* the EventSources not closed: [state, cancelled, stale]
  mounted,              \* Home is mounted
  backend,              \* environment: the backend that answers in this behaviour
  probe,                \* a mapper or selector input and what it was mapped to
  wsClient,             \* page.tsx:167, the module's client: <<>> (null) or
                        \* <<n>>, the n-th client createClient built
  client,               \* binanceClient.ts:3, likewise for binance()
  handed,               \* history: the instances each getter has returned
  route,                \* the requests of /api/binance/stream
  minute,               \* the one-minute page variant of Home, page.tsx:1614-1619
  lastOp                \* history: the last operation applied to a buffer

vars == <<selectedSymbol, selectedInterval, intervalMode, symbolOptions,
          symbolsFetch, candles, isStreaming, errorMessage, refreshTimeout, timers,
          refreshInFlight, load, sub, binanceCandles, binanceStatus,
          binanceErrorMessage, binanceLoad, source, mounted, backend, probe,
          wsClient, client, handed, route, minute, lastOp>>

selectionVars == <<selectedSymbol, selectedInterval, intervalMode,
                   symbolOptions, symbolsFetch>>
internalVars == <<candles, isStreaming, errorMessage, refreshTimeout, timers,
                  refreshInFlight, load, sub>>
binanceVars == <<binanceCandles, binanceStatus, binanceErrorMessage,
                 binanceLoad, source>>
\* What the handlers of each feed do not write when they touch a buffer.
internalControl == <<refreshTimeout, timers, refreshInFlight, load, sub>>
binanceControl == <<binanceLoad, source>>
\* What no handler of a buffer writes.
fixedVars == <<mounted, backend, probe, minute>>
\* The module-level clients and the server's routes, and those of the server.
moduleVars == <<wsClient, client, handed, route>>
serverVars == <<client, route>>

\* page.tsx:88
DEFAULT_INTERVAL_MINUTES == 1

NoCandle == Candle(0, 0, 0, 0, 0, 0)

\* The history record: what the last buffer operation was and on what.
\*   kind      "none" | "upsert" | "reseed" | "clear"
\*   feed      "internal" | "binance"
\*   candle    the candle upserted
\*   mapped    the candle list a snapshot load handed to the buffer
\*   preLen    the buffer's length before the operation
\*   idx       findIndex of the candle's openTime in the buffer before
\*   changed   the upsert replaced a candle that held other values
\*   repeat    the operation before this one was the same upsert
\*   closed    how many subscriptions, event streams and timers a selection
\*             change tore down
Op(kind, feed, candle, mapped, previous) ==
  [kind |-> kind, feed |-> feed, candle |-> candle, mapped |-> mapped,
   preLen |-> Len(previous),
   idx |-> findIndex(previous, candle.openTime),
   changed |-> /\ findIndex(previous, candle.openTime) # 0
               /\ previous[findIndex(previous, candle.openTime)] # candle,
   repeat |-> /\ kind = "upsert"
              /\ lastOp.kind = "upsert"
              /\ lastOp.feed = feed
              /\ lastOp.candle = candle,
   closed |-> 0]

NoOp == [kind |-> "none", feed |-> "none", candle |-> NoCandle,
         mapped |-> <<>>, preLen |-> 0, idx |-> 0, changed |-> FALSE,
         repeat |-> FALSE, closed |-> 0]

\* No mapper or selector has been applied.
NoProbe == [family |-> "none", function |-> "none", input |-> <<>>,
            output |-> <<>>]

\* The requests the stream route receives in a behaviour.
Requests == 1..MaxRequests

\* A request of the stream route that has not arrived: state is "none", "400",
\* "500", "open" (the response streams) or "cancelled"; keepAlive: the
\* setInterval timer runs; upstream: the subscription ws.candles returned is
\* open; subscribed: how many subscriptions the request opened; frames: how
\* many frames were enqueued.
NoRoute == [state |-> "none", keepAlive |-> FALSE, upstream |-> FALSE,
            subscribed |-> 0, frames |-> 0]

\* The one-minute page after its first render (page.tsx:1614-1619): its
\* state, the symbols query and the loads in flight, the subscriptions, the
\* module's wsClient (page.tsx:1435) and, as history, its last operation.
InitMinute ==
  [selectedSymbol |-> "", symbolOptions |-> {}, symbolsFetch |-> "pending",
   candles |-> <<>>, events |-> <<>>, isStreaming |-> FALSE,
   errorMessage |-> "null", load |-> {}, sub |-> {}, wsClient |-> <<>>,
   mounted |-> TRUE, last |-> [kind |-> "none", candle |-> <<>>]]

\* Home after its first render, before any effect's request is answered.
InitHome ==
  /\ selectedSymbol = ""
  /\ selectedInterval = DEFAULT_INTERVAL_MINUTES
  /\ intervalMode = 0
  /\ symbolOptions = {}
  /\ symbolsFetch = "pending"
  /\ candles = <<>>
  /\ isStreaming = FALSE
  /\ errorMessage = "null"
  /\ refreshTimeout = <<>>
  /\ timers = <<>>
  /\ refreshInFlight = {}
  /\ load = {}
  /\ sub = {}
  /\ binanceCandles = <<>>
  /\ binanceStatus = "idle"
  /\ binanceErrorMessage = "null"
  /\ binanceLoad = {}
  /\ source = {}
  /\ mounted = TRUE
  /\ wsClient = <<>>
  /\ client = <<>>
  /\ handed = [ws |-> {}, binance |-> {}]
  /\ route = [request \in Requests |-> NoRoute]
  /\ minute = InitMinute
  /\ lastOp = NoOp

\* One backend answers in a behaviour.
InitPage == InitHome /\ backend \in {"internal", "binance"}

Init == InitPage /\ probe = NoProbe

\* The backend of a feed answers in this behaviour.
Answers(feed) == backend \in {feed, "both"}

\* ------------------------------------------- what the handlers do to a buffer
\* page.tsx:818-819, the initial load's rows arrived: applyCandles(mapped);
\* setIsStreaming(true)
LoadApplied(mapped) ==
  /\ candles' = applyCandles(candles, mapped)
  /\ isStreaming' = TRUE
  /\ lastOp' = Op("reseed", "internal", NoCandle, mapped, candles)
  /\ UNCHANGED errorMessage

\* The catch branch leaving the buffer as it is.
LoadFailureKeepsCandles ==
  /\ isStreaming' = FALSE
  /\ errorMessage' = "klines-failed"
  /\ lastOp' = Op("clear", "internal", NoCandle, <<>>, candles)
  /\ UNCHANGED candles

\* page.tsx:823-825, the initial load failed
LoadCleared ==
  /\ candles' = <<>>
  /\ isStreaming' = FALSE
  /\ errorMessage' = "klines-failed"
  /\ lastOp' = Op("clear", "internal", NoCandle, <<>>, candles)

\* page.tsx:743, a silent refresh's rows arrived: applyCandles(refreshed)
RefreshApplied(refreshed) ==
  /\ candles' = applyCandles(candles, refreshed)
  /\ lastOp' = Op("reseed", "internal", NoCandle, refreshed, candles)
  /\ UNCHANGED <<isStreaming, errorMessage>>

\* page.tsx:1036-1057 and 1062, a one-minute klineUpdated candle: the
\* setCandles updater, then setIsStreaming(true)
KlineUpserted(candle) ==
  /\ candles' = UpsertCandles(candles, candle)
  /\ isStreaming' = TRUE
  /\ lastOp' = Op("upsert", "internal", candle, <<>>, candles)
  /\ UNCHANGED errorMessage

\* page.tsx:896, the Binance snapshot arrived: setBinanceCandles(mappedCandles)
BinanceSnapshotApplied(mappedCandles) ==
  /\ binanceCandles' = setBinanceSnapshot(binanceCandles, mappedCandles)
  /\ lastOp' = Op("reseed", "binance", NoCandle, mappedCandles, binanceCandles)
  /\ UNCHANGED <<binanceStatus, binanceErrorMessage>>

\* page.tsx:849-853 and 858-862, the selection cannot be asked of Binance
BinanceCleared(message) ==
  /\ binanceCandles' = <<>>
  /\ binanceStatus' = "error"
  /\ binanceErrorMessage' = message
  /\ lastOp' = Op("clear", "binance", NoCandle, <<>>, binanceCandles)

\* page.tsx:939-956, a stream candle: the setBinanceCandles updater
StreamUpserted(candle) ==
  /\ binanceCandles' = UpsertBinanceCandles(binanceCandles, candle)
  /\ lastOp' = Op("upsert", "binance", candle, <<>>, binanceCandles)
  /\ UNCHANGED <<binanceStatus, binanceErrorMessage>>

\* ----------------------------------------------------------------- the page
\* The responses and events of the page: two snapshots per backend (an empty
\* one and one of two rows out of order) and, per interval, an older and a
\* newer candle and a payload whose prices do not parse.
PageKlineRows == {<<>>, <<Kline(1, 2, "1", 5), Kline(1, 1, "1", 5)>>}

PageKlineSnapshots == {fetchCandles(klines) : klines \in PageKlineRows}

\* The responses of the GraphQL endpoint to a klines query: any status, with
\* or without errors, with or without data.
GraphQLResponses ==
  {[ok |-> ok, errors |-> errors, data |-> data] :
     ok \in BOOLEAN, errors \in {0, 1},
     data \in {<<>>} \cup {<<klines>> : klines \in PageKlineRows}}

\* page.tsx:707-726, fetchCandles resolves to mapped on some response.
Resolves(mapped) ==
  \E response \in GraphQLResponses :
    /\ ~fetchGraphQL(response).threw
    /\ fetchCandles(fetchGraphQL(response).data) = mapped

\* fetchCandles rejects on some response.
Rejects == \E response \in GraphQLResponses : fetchGraphQL(response).threw

PageBinanceSnapshots ==
  {mapBinanceSnapshot(rows) :
     rows \in {<<>>, <<BinanceRest(2, "1"), BinanceRest(1, "1")>>}}

PageKlinePayloads ==
  {Kline(i, t, "1", 5) : i \in Intervals, t \in {1, MAX_CANDLES + 1}}
    \cup {Kline(i, 1, "abc", 5) : i \in Intervals}
    \cup {Kline(i, 0, "1", 5) : i \in Intervals}

PageStreamPayloads ==
  {BinanceStream(t, "1") : t \in {1, MAX_CANDLES + 1}}
    \cup {BinanceStream(1, "abc")}

\* Home with its effects, requests, timer, subscription and event stream.
\* A selection change and the effects it re-runs are one step: React runs the
\* cleanups of the effects whose dependencies changed, then their bodies, in
\* declaration order, before the next event is handled.
Sel(symbol, interval) == [symbol |-> symbol, interval |-> interval]

Current == Sel(selectedSymbol, selectedInterval)

\* A step that is not an operation on a buffer.
Event(kind, feed) == [NoOp EXCEPT !.kind = kind, !.feed = feed]

\* A request, subscription or event stream carries the flag its closure
\* tests (cancelled, active) and a history mark, stale: the selection has
\* changed since it was created.
NewRequest == [cancelled |-> FALSE, stale |-> FALSE]
NewSubscription == [active |-> TRUE, stale |-> FALSE]
NewSource == [state |-> "connecting", cancelled |-> FALSE, stale |-> FALSE]

Outdated(items) == {[item EXCEPT !.stale = TRUE] : item \in items}

\* A cleanup that leaves the flags as they are.
NotCancelled(requests) == requests

\* cancelled = true in the cleanup of an effect (page.tsx:832-834, 974-975):
\* every request in flight of that effect now carries a set flag.
Cancelled(requests) ==
  {[request EXCEPT !.cancelled = TRUE] : request \in requests}

\* A cleanup that clears the active flag and does not dispose.
deactivateSubscriptions(subscriptions) ==
  {[subscription EXCEPT !.active = FALSE] : subscription \in subscriptions}

\* page.tsx:1080-1083, cleanup of the subscription effect: active = false;
\* dispose()
disposeSubscriptions(subscriptions) == {}

\* page.tsx:974-977, cleanup of the Binance effect: cancelled = true;
\* source?.close()
closeSources(sources) == {}

\* page.tsx:798-835, 837-978, 980-1085: the cleanups and then the bodies of
\* the three effects that depend on the selection, for the new selection.
RunEffects(symbol, interval) ==
  /\ UNCHANGED <<candles, refreshInFlight>>
  /\ source' = closeSources(Outdated(source))
  /\ IF symbol = ""
     THEN /\ UNCHANGED <<isStreaming, errorMessage, refreshTimeout, timers,
                         wsClient, handed>>
          /\ load' = Cancelled(Outdated(load))
          /\ sub' = disposeSubscriptions(Outdated(sub))
          /\ binanceCandles' = <<>>
          /\ binanceStatus' = "idle"
          /\ binanceErrorMessage' = "null"
          /\ binanceLoad' = Cancelled(Outdated(binanceLoad))
     ELSE /\ timers' = clearTimeout(timers, refreshTimeout)
          /\ refreshTimeout' = <<>>
          /\ isStreaming' = FALSE
          /\ errorMessage' = "null"
          /\ load' = Cancelled(Outdated(load)) \cup {NewRequest}
          /\ sub' = disposeSubscriptions(Outdated(sub)) \cup {NewSubscription}
          /\ wsClient' = getWsClient(wsClient)
          /\ handed' = [handed EXCEPT !.ws = @ \cup {getWsClient(wsClient)[1]}]
          /\ IF BinanceIntervalCode(interval) = ""
             THEN /\ binanceCandles' = <<>>
                  /\ binanceStatus' = "error"
                  /\ binanceErrorMessage' = "unsupported-interval"
                  /\ binanceLoad' = Cancelled(Outdated(binanceLoad))
             ELSE IF normalizeBinanceSymbol(symbol) = ""
             THEN /\ binanceCandles' = <<>>
                  /\ binanceStatus' = "error"
                  /\ binanceErrorMessage' = "unknown-symbol"
                  /\ binanceLoad' = Cancelled(Outdated(binanceLoad))
             ELSE /\ UNCHANGED binanceCandles
                  /\ binanceStatus' = "connecting"
                  /\ binanceErrorMessage' = "null"
                  /\ binanceLoad' = Cancelled(Outdated(binanceLoad)) \cup {NewRequest}

\* setSelectedSymbol / setSelectedInterval: the effects re-run when a
\* dependency changed.
Commit(symbol, interval) ==
  /\ selectedSymbol' = symbol
  /\ selectedInterval' = interval
  /\ IF Sel(symbol, interval) = Current
     THEN UNCHANGED <<internalVars, binanceVars, wsClient, handed>>
     ELSE RunEffects(symbol, interval)

\* The lists of active symbols a symbols response may carry.
SymbolLists == {<<>>, <<"btc">>, <<"btc", "--">>, <<"--", "btc">>}

\* page.tsx:759-796, the symbols query answered.  The closure's
\* selectedSymbol is the initial "".
SymbolsLoaded(activeSymbols) ==
  /\ symbolsFetch = "pending"
  /\ symbolsFetch' = "done"
  /\ lastOp' = Event("symbols", "none")
  /\ UNCHANGED <<intervalMode, fixedVars, serverVars>>
  /\ IF ~mounted
     THEN UNCHANGED <<selectedSymbol, selectedInterval, symbolOptions,
                      internalVars, binanceVars, wsClient, handed>>
     ELSE /\ symbolOptions' = Range(activeSymbols)
          /\ IF Len(activeSymbols) > 0
             THEN Commit(activeSymbols[1], selectedInterval)
             ELSE UNCHANGED <<selectedSymbol, selectedInterval, internalVars,
                              binanceVars, wsClient, handed>>

\* page.tsx:786-791, the symbols query failed
SymbolsFailed ==
  /\ symbolsFetch = "pending"
  /\ symbolsFetch' = "done"
  /\ errorMessage' = IF mounted THEN "symbols-failed" ELSE errorMessage
  /\ lastOp' = Event("symbols-failed", "none")
  /\ UNCHANGED <<selectedSymbol, selectedInterval, intervalMode, symbolOptions,
                 candles, isStreaming, internalControl, binanceVars, fixedVars, moduleVars>>

\* History of a handler that sets the selection: "select" when the selection
\* changed, with what was live before it and is torn down by the cleanups.
Selected(symbol, interval) ==
  IF Sel(symbol, interval) = Current
  THEN Event("reselect", "none")
  ELSE [Event("select", "none") EXCEPT
          !.closed = Cardinality(sub) + Cardinality(source)
                       + Len(refreshTimeout)]

\* page.tsx:1087-1090
handleSymbolChange(nextSymbol) ==
  /\ mounted
  /\ nextSymbol \in symbolOptions
  /\ Commit(nextSymbol, selectedInterval)
  /\ lastOp' = Selected(nextSymbol, selectedInterval)
  /\ UNCHANGED <<intervalMode, symbolOptions, symbolsFetch, fixedVars,
                 serverVars>>

\* page.tsx:1092-1102; value 0 stands for "auto"
handleIntervalModeChange(value) ==
  /\ mounted
  /\ intervalMode' = value
  /\ Commit(selectedSymbol,
            IF value = 0 THEN DEFAULT_INTERVAL_MINUTES ELSE value)
  /\ lastOp' = Selected(selectedSymbol,
                        IF value = 0 THEN DEFAULT_INTERVAL_MINUTES ELSE value)
  /\ UNCHANGED <<symbolOptions, symbolsFetch, fixedVars, serverVars>>

\* The range handler without the test of the interval mode.
handleZoomRangeChangeAnyMode(rangeMinutes) ==
  /\ mounted
  /\ UNCHANGED <<intervalMode, symbolOptions, symbolsFetch, fixedVars,
                 serverVars>>
  /\ IF rangeMinutes <= 0 \/ Len(candles) = 0
     THEN /\ UNCHANGED <<selectedSymbol, selectedInterval, internalVars,
                         binanceVars, wsClient, handed>>
          /\ lastOp' = Event("zoom", "none")
     ELSE /\ Commit(selectedSymbol, pickIntervalForRange(rangeMinutes))
          /\ lastOp' = Selected(selectedSymbol,
                                pickIntervalForRange(rangeMinutes))

\* page.tsx:1104-1118, with the range in minutes
handleZoomRangeChange(rangeMinutes) ==
  /\ mounted
  /\ UNCHANGED <<intervalMode, symbolOptions, symbolsFetch, fixedVars,
                 serverVars>>
  /\ IF intervalMode # 0 \/ rangeMinutes <= 0 \/ Len(candles) = 0
     THEN /\ UNCHANGED <<selectedSymbol, selectedInterval, internalVars,
                         binanceVars, wsClient, handed>>
          /\ lastOp' = Event("zoom", "none")
     ELSE /\ Commit(selectedSymbol, pickIntervalForRange(rangeMinutes))
          /\ lastOp' = Selected(selectedSymbol,
                                pickIntervalForRange(rangeMinutes))

\* One request of the set is answered; when its flag is set, others with a set
\* flag may still be in flight.
Answered(requests, request) ==
  {requests \ {request}} \cup (IF request.cancelled THEN {requests} ELSE {})

\* page.tsx:810-819, the initial load's fetchCandles resolved
LoadSucceeded(request, mapped) ==
  /\ Answers("internal")
  /\ request \in load
  /\ Resolves(mapped)
  /\ load' \in Answered(load, request)
  /\ IF request.cancelled
     THEN /\ UNCHANGED <<candles, isStreaming, errorMessage>>
          /\ lastOp' = Event("stale-load", "internal")
     ELSE LoadApplied(mapped)
  /\ UNCHANGED <<selectionVars, refreshTimeout, timers, refreshInFlight, sub,
                 binanceVars, fixedVars, moduleVars>>

\* page.tsx:820-828, the initial load's fetchCandles rejected
LoadFailed(request) ==
  /\ Answers("internal")
  /\ request \in load
  /\ Rejects
  /\ load' \in Answered(load, request)
  /\ IF request.cancelled
     THEN /\ UNCHANGED <<candles, isStreaming, errorMessage>>
          /\ lastOp' = Event("stale-load-failed", "internal")
     ELSE LoadCleared
  /\ UNCHANGED <<selectionVars, refreshTimeout, timers, refreshInFlight, sub,
                 binanceVars, fixedVars, moduleVars>>

\* queueSilentRefresh setting no timeout.
queueSilentRefreshDropped == UNCHANGED <<refreshTimeout, timers>>

\* queueSilentRefresh without the test of refreshTimeoutRef.current.
queueSilentRefreshUnguarded ==
  IF selectedSymbol = ""
  THEN UNCHANGED <<refreshTimeout, timers>>
  ELSE /\ refreshTimeout' = <<Current>>
       /\ timers' = setTimeout(timers, Current)

\* page.tsx:730-748, queueSilentRefresh from the closure of the current
\* selection: nothing without a symbol or with a timer pending
queueSilentRefresh ==
  IF selectedSymbol = "" \/ refreshTimeout # <<>>
  THEN UNCHANGED <<refreshTimeout, timers>>
  ELSE /\ refreshTimeout' = <<Current>>
       /\ timers' = setTimeout(timers, Current)

\* Every payload passing the interval filter.
intervalAlwaysMatches(payload) == TRUE

\* page.tsx:1027-1029, the interval filter of next:
\* payload.interval !== selectedInterval returns
intervalMatches(payload) == payload.interval = selectedInterval

\* Every interval's update upserted into the buffer.
appliesDirectlyAlways(interval) == TRUE

\* page.tsx:1036, selectedInterval === 1: the update is upserted; otherwise
\* a silent refresh is queued
appliesDirectly(interval) == interval = 1

\* page.tsx:1008-1063, next of the subscription with a klineUpdated payload
SubscriptionNext(subscription, kline) ==
  /\ Answers("internal")
  /\ subscription \in sub
  /\ UNCHANGED <<selectionVars, refreshInFlight, load, sub, binanceVars,
                 fixedVars, moduleVars>>
  /\ IF ~subscription.active
     THEN /\ UNCHANGED <<candles, isStreaming, errorMessage, refreshTimeout, timers>>
          /\ lastOp' = Event("inactive", "internal")
     ELSE IF ~intervalMatches(kline)
     THEN /\ UNCHANGED <<candles, isStreaming, errorMessage, refreshTimeout, timers>>
          /\ lastOp' = Event("ignored", "internal")
     ELSE IF mapSubscriptionKlineToCandle(kline) = <<>>
     THEN /\ UNCHANGED <<candles, isStreaming, errorMessage, refreshTimeout, timers>>
          /\ lastOp' = Event("dropped", "internal")
     ELSE IF appliesDirectly(selectedInterval)
     THEN /\ KlineUpserted(mapSubscriptionKlineToCandle(kline)[1])
          /\ UNCHANGED <<refreshTimeout, timers>>
     ELSE /\ queueSilentRefresh
          /\ isStreaming' = TRUE
          /\ UNCHANGED <<candles, errorMessage>>
          /\ lastOp' = Event(IF refreshTimeout # <<>> THEN "refresh-pending"
                             ELSE "refresh-queued", "internal")

\* page.tsx:1016-1021, next with result.errors
SubscriptionErrors(subscription) ==
  /\ Answers("internal")
  /\ subscription \in sub
  /\ errorMessage' = IF subscription.active THEN "subscription-errors" ELSE errorMessage
  /\ isStreaming' = IF subscription.active THEN FALSE ELSE isStreaming
  /\ lastOp' = Event("subscription-errors", "internal")
  /\ UNCHANGED <<selectionVars, candles, internalControl, binanceVars,
                 fixedVars, moduleVars>>

\* page.tsx:1023-1028, next without a payload
SubscriptionEmpty(subscription) ==
  /\ Answers("internal")
  /\ subscription \in sub
  /\ lastOp' = Event("no-payload", "internal")
  /\ UNCHANGED <<selectionVars, internalVars, binanceVars, fixedVars, moduleVars>>

\* page.tsx:1064-1071, error of the subscription, which ends it
SubscriptionError(subscription) ==
  /\ Answers("internal")
  /\ subscription \in sub
  /\ sub' = sub \ {subscription}
  /\ errorMessage' = IF subscription.active THEN "subscription-closed" ELSE errorMessage
  /\ isStreaming' = IF subscription.active THEN FALSE ELSE isStreaming
  /\ lastOp' = Event("subscription-error", "internal")
  /\ UNCHANGED <<selectionVars, candles, refreshTimeout, timers, refreshInFlight, load,
                 binanceVars, fixedVars, moduleVars>>

\* page.tsx:1072-1077, complete of the subscription
SubscriptionComplete(subscription) ==
  /\ Answers("internal")
  /\ subscription \in sub
  /\ sub' = sub \ {subscription}
  /\ isStreaming' = IF subscription.active THEN FALSE ELSE isStreaming
  /\ lastOp' = Event("subscription-complete", "internal")
  /\ UNCHANGED <<selectionVars, candles, errorMessage, refreshTimeout, timers,
                 refreshInFlight, load, binanceVars, fixedVars, moduleVars>>

\* page.tsx:739-742, the debounce timer fires: the ref is reset and
\* fetchCandles is called with the selection of the timer's closure
RefreshTimerFired ==
  /\ \E fired \in 1..Len(timers) :
       /\ timers' = RemoveAt(timers, fired)
       /\ refreshInFlight' = refreshInFlight \cup {timers[fired]}
  /\ refreshTimeout' = <<>>
  /\ lastOp' = Event("refresh-requested", "internal")
  /\ UNCHANGED <<selectionVars, candles, isStreaming, errorMessage, load, sub,
                 binanceVars, fixedVars, moduleVars>>

\* page.tsx:742-743, a silent refresh's fetchCandles resolved:
\* applyCandles(refreshed), a no-op once Home is unmounted; other refreshes
\* for the same selection may still be in flight
RefreshSucceeded(selection, refreshed) ==
  /\ Answers("internal")
  /\ selection \in refreshInFlight
  /\ Resolves(refreshed)
  /\ refreshInFlight' \in {refreshInFlight, refreshInFlight \ {selection}}
  /\ IF mounted
     THEN RefreshApplied(refreshed)
     ELSE /\ UNCHANGED <<candles, isStreaming, errorMessage>>
          /\ lastOp' = Event("refresh-unmounted", "internal")
  /\ UNCHANGED <<selectionVars, refreshTimeout, timers, load, sub, binanceVars,
                 fixedVars, moduleVars>>

\* The catch of the timer callback handling the failure as the initial load
\* does.
RefreshFailedClears(selection) ==
  /\ Answers("internal")
  /\ selection \in refreshInFlight
  /\ Rejects
  /\ refreshInFlight' \in {refreshInFlight, refreshInFlight \ {selection}}
  /\ LoadCleared
  /\ UNCHANGED <<selectionVars, refreshTimeout, timers, load, sub,
                 binanceVars, fixedVars, moduleVars>>

\* page.tsx:744-746, a silent refresh's fetchCandles rejected: logged
RefreshFailed(selection) ==
  /\ Answers("internal")
  /\ selection \in refreshInFlight
  /\ Rejects
  /\ refreshInFlight' \in {refreshInFlight, refreshInFlight \ {selection}}
  /\ lastOp' = Event("refresh-failed", "internal")
  /\ UNCHANGED <<selectionVars, candles, isStreaming, errorMessage,
                 refreshTimeout, timers, load, sub, binanceVars, fixedVars, moduleVars>>

\* The continuation of the load without its two tests of cancelled.
BinanceLoadSucceededUnchecked(request, mappedCandles) ==
  /\ Answers("binance")
  /\ request \in binanceLoad
  /\ binanceLoad' \in Answered(binanceLoad, request)
  /\ BinanceSnapshotApplied(mappedCandles)
  /\ source' = source \cup {NewSource}
  /\ UNCHANGED <<selectionVars, internalVars, fixedVars, moduleVars>>

\* page.tsx:868-896 and 906-912, the Binance REST load answered with rows:
\* the snapshot is stored and the EventSource is created
BinanceLoadSucceeded(request, mappedCandles) ==
  /\ Answers("binance")
  /\ request \in binanceLoad
  /\ binanceLoad' \in Answered(binanceLoad, request)
  /\ IF request.cancelled
     THEN /\ UNCHANGED <<binanceCandles, binanceStatus, binanceErrorMessage,
                         source>>
          /\ lastOp' = Event("stale-load", "binance")
     ELSE /\ BinanceSnapshotApplied(mappedCandles)
          /\ source' = source \cup {NewSource}
  /\ UNCHANGED <<selectionVars, internalVars, fixedVars, moduleVars>>

\* The catch branch reporting through the internal feed's error message.
BinanceLoadFailedSharedMessage(request) ==
  /\ Answers("binance")
  /\ request \in binanceLoad
  /\ binanceLoad' \in Answered(binanceLoad, request)
  /\ binanceStatus' = IF request.cancelled THEN binanceStatus ELSE "error"
  /\ errorMessage' = IF request.cancelled THEN errorMessage
                     ELSE "binance-load-failed"
  /\ lastOp' = Event(IF request.cancelled THEN "stale-load-failed" ELSE "load-failed",
                     "binance")
  /\ UNCHANGED <<selectionVars, candles, isStreaming, internalControl,
                 binanceCandles, binanceErrorMessage, source, fixedVars, moduleVars>>

\* page.tsx:897-904, the Binance REST load failed
BinanceLoadFailed(request) ==
  /\ Answers("binance")
  /\ request \in binanceLoad
  /\ binanceLoad' \in Answered(binanceLoad, request)
  /\ binanceStatus' = IF request.cancelled THEN binanceStatus ELSE "error"
  /\ binanceErrorMessage' = IF request.cancelled THEN binanceErrorMessage
                            ELSE "binance-load-failed"
  /\ lastOp' = Event(IF request.cancelled THEN "stale-load-failed" ELSE "load-failed",
                     "binance")
  /\ UNCHANGED <<selectionVars, internalVars, binanceCandles, source,
                 fixedVars, moduleVars>>

\* page.tsx:914-918, source.onopen
SourceOpened(src) ==
  /\ Answers("binance")
  /\ src \in source
  /\ src.state = "connecting"
  /\ source' = (source \ {src}) \cup {[src EXCEPT !.state = "open"]}
  /\ binanceStatus' = IF src.cancelled THEN binanceStatus ELSE "connected"
  /\ lastOp' = Event("source-open", "binance")
  /\ UNCHANGED <<selectionVars, internalVars, binanceCandles,
                 binanceErrorMessage, binanceLoad, fixedVars, moduleVars>>

\* page.tsx:920-960, source.onmessage with a frame that carries a candle
SourceMessage(src, payload) ==
  /\ Answers("binance")
  /\ src \in source
  /\ src.state = "open"
  /\ UNCHANGED <<selectionVars, internalVars, binanceControl, fixedVars, moduleVars>>
  /\ IF src.cancelled
     THEN /\ UNCHANGED <<binanceCandles, binanceStatus, binanceErrorMessage>>
          /\ lastOp' = Event("inactive", "binance")
     ELSE IF mapBinanceStreamCandle(payload) = <<>>
     THEN /\ UNCHANGED <<binanceCandles, binanceStatus, binanceErrorMessage>>
          /\ lastOp' = Event("dropped", "binance")
     ELSE StreamUpserted(mapBinanceStreamCandle(payload)[1])

\* page.tsx:921-932 and 957-959, a frame without data, that is not JSON or
\* that carries no candle
SourceMessageSkipped(src) ==
  /\ Answers("binance")
  /\ src \in source
  /\ src.state = "open"
  /\ lastOp' = Event("skipped", "binance")
  /\ UNCHANGED <<selectionVars, internalVars, binanceVars, fixedVars, moduleVars>>

\* onerror without source.close(): the source stays among the live ones.
SourceErrorLeftOpen(src) ==
  /\ Answers("binance")
  /\ src \in source
  /\ binanceStatus' = IF src.cancelled THEN binanceStatus ELSE "error"
  /\ binanceErrorMessage' = IF src.cancelled THEN binanceErrorMessage
                            ELSE "binance-stream-lost"
  /\ lastOp' = Event("source-error", "binance")
  /\ UNCHANGED <<selectionVars, internalVars, binanceCandles, binanceLoad,
                 source, fixedVars, moduleVars>>

\* page.tsx:962-969, source.onerror: the source is closed
SourceError(src) ==
  /\ Answers("binance")
  /\ src \in source
  /\ source' = source \ {src}
  /\ binanceStatus' = IF src.cancelled THEN binanceStatus ELSE "error"
  /\ binanceErrorMessage' = IF src.cancelled THEN binanceErrorMessage
                            ELSE "binance-stream-lost"
  /\ lastOp' = Event("source-error", "binance")
  /\ UNCHANGED <<selectionVars, internalVars, binanceCandles, binanceLoad,
                 fixedVars, moduleVars>>

\* Home unmounts: the cleanups of every effect (page.tsx:750-757, 793-795,
\* 832-834, 974-977, 1080-1083)
Unmount ==
  /\ mounted
  /\ mounted' = FALSE
  /\ timers' = clearTimeout(timers, refreshTimeout)
  /\ refreshTimeout' = <<>>
  /\ load' = Cancelled(load)
  /\ sub' = disposeSubscriptions(sub)
  /\ binanceLoad' = Cancelled(binanceLoad)
  /\ source' = closeSources(source)
  /\ lastOp' = Event("unmount", "none")
  /\ UNCHANGED <<selectionVars, candles, isStreaming, errorMessage,
                 refreshInFlight, binanceCandles, binanceStatus,
                 binanceErrorMessage, backend, probe, minute, moduleVars>>

Next ==
  \/ \E activeSymbols \in SymbolLists : SymbolsLoaded(activeSymbols)
  \/ SymbolsFailed
  \/ \E nextSymbol \in Symbols : handleSymbolChange(nextSymbol)
  \/ \E value \in {0} \cup Intervals : handleIntervalModeChange(value)
  \/ \E rangeMinutes \in ZoomRanges : handleZoomRangeChange(rangeMinutes)
  \/ \E request \in load, mapped \in PageKlineSnapshots :
       LoadSucceeded(request, mapped)
  \/ \E request \in load : LoadFailed(request)
  \/ \E subscription \in sub, kline \in PageKlinePayloads :
       SubscriptionNext(subscription, kline)
  \/ \E subscription \in sub : SubscriptionErrors(subscription)
  \/ \E subscription \in sub : SubscriptionEmpty(subscription)
  \/ \E subscription \in sub : SubscriptionError(subscription)
  \/ \E subscription \in sub : SubscriptionComplete(subscription)
  \/ RefreshTimerFired
  \/ \E selection \in refreshInFlight, refreshed \in PageKlineSnapshots :
       RefreshSucceeded(selection, refreshed)
  \/ \E selection \in refreshInFlight : RefreshFailed(selection)
  \/ \E request \in binanceLoad, mappedCandles \in PageBinanceSnapshots :
       BinanceLoadSucceeded(request, mappedCandles)
  \/ \E request \in binanceLoad : BinanceLoadFailed(request)
  \/ \E src \in source : SourceOpened(src)
  \/ \E src \in source, payload \in PageStreamPayloads :
       SourceMessage(src, payload)
  \/ \E src \in source : SourceMessageSkipped(src)
  \/ \E src \in source : SourceError(src)
  \/ Unmount

Spec == Init /\ [][Next]_vars

\* The page with a timer that fires: a timeout that stays pending is
\* eventually run by the event loop (setTimeout(..., 300), page.tsx:739-747).
LiveSpec == Init /\ [][Next]_vars /\ WF_vars(RefreshTimerFired)

\* ------------------------------------------------------ the one-minute page
\* page.tsx:1384
CANDLES_TO_SHOW == 60

\* A timestampz string: the ISO string of instant at ("iso"), the digits of
\* its epoch seconds ("seconds", at most 10 digits) or of its epoch
\* milliseconds ("millis"), the empty string or a text that is no date.
Timestampz(form, at) == [form |-> form, at |-> at]

\* page.tsx:1450-1460, the openTime of a row: digits are read as epoch
\* seconds (times 1000) or milliseconds, anything else by Date.parse
parseTimestampz(timestampz) ==
  CASE timestampz.form = "empty" -> NaN
    [] timestampz.form = "seconds" -> timestampz.at
    [] timestampz.form = "millis" -> timestampz.at
    [] timestampz.form = "iso" -> DateParse(timestampz.at)
    [] OTHER -> NaN

\* A getOneMinuteDatas row / klineUpdated payload of the one-minute page whose
\* four prices are the same string; symbol "null" stands for null.
MinuteKline(symbol, timestampz, price) ==
  [symbol |-> symbol, timestampz |-> timestampz, open |-> price,
   high |-> price, low |-> price, close |-> price]

\* page.tsx:1449-1478; <<>> stands for null
mapKlineToCandle(kline) ==
  LET openTime == parseTimestampz(kline.timestampz)
      open == parseFloat(kline.open)
      high == parseFloat(kline.high)
      low == parseFloat(kline.low)
      close == parseFloat(kline.close)
  IN IF IsNaN(openTime) \/ IsNaN(open) \/ IsNaN(high) \/ IsNaN(low)
          \/ IsNaN(close)
     THEN <<>>
     ELSE <<[openTime |-> openTime, open |-> open, high |-> high,
             low |-> low, close |-> close]>>

\* page.tsx:1480-1485
mapKlinesToCandles(klines) ==
  SortByOpenTime(
    FilterNonNull([i \in 1..Len(klines) |-> mapKlineToCandle(klines[i])]))

\* Array.prototype.reverse
Reverse(s) == [i \in 1..Len(s) |-> s[Len(s) + 1 - i]]

\* page.tsx:1698-1703 and 1787-1792, the SubscriptionEvent of a candle; the id
\* is the decimal string of openTime, one string per openTime
SubscriptionEvent(candle, symbol) ==
  [id |-> candle.openTime, symbol |-> symbol, close |-> candle.close,
   openTime |-> candle.openTime]

\* page.tsx:1694-1704, the events of a snapshot: its last 6 candles, newest
\* first
snapshotEvents(mappedCandles, symbol) ==
  LET recent == Reverse(SliceLast(mappedCandles, 6))
  IN [i \in 1..Len(recent) |-> SubscriptionEvent(recent[i], symbol)]

\* page.tsx:1786-1796, the updater of setEvents: the event first, then the
\* previous events of other ids, 6 at most
pushEvent(prevEvents, nextEvent) ==
  LET Other(event) == event.id # nextEvent.id
      all == <<nextEvent>> \o SelectSeq(prevEvents, Other)
  IN SubSeq(all, 1, IF Len(all) < 6 THEN Len(all) ELSE 6)

\* page.tsx:1769-1784, the updater of setCandles
upsertMinuteCandle(previous, candle) ==
  IF Len(previous) = 0 THEN <<candle>>
  ELSE IF findIndex(previous, candle.openTime) # 0
  THEN [previous EXCEPT ![findIndex(previous, candle.openTime)] = candle]
  ELSE SortByOpenTime(
         Append(SliceLast(previous, CANDLES_TO_SHOW - 1), candle))

\* payload.symbol ?? selectedSymbol
symbolOr(symbol, selected) == IF symbol = "null" THEN selected ELSE symbol

\* The symbols of the one-minute page and the lists a symbols response may
\* carry.
MinuteSymbols == {"btc", "eth"}
MinuteSymbolLists == {<<>>, <<"btc", "eth">>}

\* Candle times: one more than the events list holds, and a later one.
MinuteTimes == 1..7

\* The rows a getOneMinuteDatas response may carry: none, two rows out of
\* order, the same minute twice (as an ISO string and as epoch seconds), a
\* row that does not parse, and more rows than the events list holds.
MinuteRows ==
  {<<>>,
   <<MinuteKline("btc", Timestampz("iso", 2), "1"),
     MinuteKline("btc", Timestampz("iso", 1), "1")>>,
   <<MinuteKline("btc", Timestampz("iso", 1), "1"),
     MinuteKline("btc", Timestampz("seconds", 1), "1")>>,
   <<MinuteKline("btc", Timestampz("text", 0), "1"),
     MinuteKline("btc", Timestampz("iso", 3), "abc")>>,
   [t \in MinuteTimes |-> MinuteKline("btc", Timestampz("iso", t), "1")]}

\* klineUpdated payloads: an old minute, a new one without a symbol and one
\* that does not parse.
MinutePayloads ==
  {MinuteKline("btc", Timestampz("iso", 1), "2"),
   MinuteKline("null", Timestampz("millis", 8), "2"),
   MinuteKline("btc", Timestampz("empty", 0), "2")}

\* Everything but the one-minute page.
homeVars == <<selectionVars, internalVars, binanceVars, mounted, backend,
              probe, moduleVars, lastOp>>

MinuteOp(kind, candle) == [kind |-> kind, candle |-> candle]

\* The cleanups of the effects of [selectedSymbol] (page.tsx:1719-1721,
\* 1817-1820): cancelled = true; active = false and dispose()
MinuteCleanedUp(page) ==
  [page EXCEPT
     !.load = {[request EXCEPT !.cancelled = TRUE] : request \in page.load},
     !.sub = {[subscription EXCEPT !.active = FALSE] :
                subscription \in page.sub}]

\* setSelectedSymbol(symbol): when the symbol changed, the cleanups and then
\* the bodies of the two effects, fetchKlines up to its await (page.tsx:
\* 1662-1674) and the subscription (page.tsx:1724-1732)
MinuteSelected(page, symbol) ==
  IF symbol = page.selectedSymbol THEN page
  ELSE [MinuteCleanedUp(page) EXCEPT
          !.selectedSymbol = symbol,
          !.isStreaming = FALSE,
          !.errorMessage = "null",
          !.load = @ \cup {[symbol |-> symbol, cancelled |-> FALSE]},
          !.sub = @ \cup {[symbol |-> symbol, active |-> TRUE]},
          !.wsClient = getWsClient(@)]

\* page.tsx:1623-1660, the symbols query of the one-minute page answered; the
\* closure's selectedSymbol is the initial ""
MinuteSymbolsLoaded(activeSymbols) ==
  /\ minute.symbolsFetch = "pending"
  /\ minute' =
       IF ~minute.mounted
       THEN [minute EXCEPT !.symbolsFetch = "done",
                           !.last = MinuteOp("symbols-cancelled", <<>>)]
       ELSE [(IF Len(activeSymbols) > 0
              THEN MinuteSelected(minute, activeSymbols[1])
              ELSE minute)
             EXCEPT !.symbolsFetch = "done",
                    !.symbolOptions = Range(activeSymbols),
                    !.last = MinuteOp("symbols", <<>>)]
  /\ UNCHANGED homeVars

\* page.tsx:1646-1651, the symbols query failed
MinuteSymbolsFailed ==
  /\ minute.symbolsFetch = "pending"
  /\ minute' = [minute EXCEPT
                  !.symbolsFetch = "done",
                  !.errorMessage = IF minute.mounted THEN "symbols-failed"
                                   ELSE @,
                  !.last = MinuteOp("symbols-failed", <<>>)]
  /\ UNCHANGED homeVars

\* page.tsx:1823-1826, handleSymbolChange of the one-minute page
MinuteSymbolChange(nextSymbol) ==
  /\ minute.mounted
  /\ nextSymbol \in minute.symbolOptions
  /\ minute' = [MinuteSelected(minute, nextSymbol) EXCEPT
                  !.last = MinuteOp(IF nextSymbol = minute.selectedSymbol
                                    THEN "reselect" ELSE "select", <<>>)]
  /\ UNCHANGED homeVars

\* page.tsx:1669-1705, fetchKlines after its fetchGraphQL resolved
MinuteLoadSucceeded(request, rows) ==
  /\ request \in minute.load
  /\ LET mappedCandles ==
           SliceLast(mapKlinesToCandles(rows), CANDLES_TO_SHOW)
     IN minute' =
          IF request.cancelled
          THEN [minute EXCEPT !.load = @ \ {request},
                              !.last = MinuteOp("stale-load", <<>>)]
          ELSE [minute EXCEPT
                  !.load = @ \ {request},
                  !.candles = mappedCandles,
                  !.events = snapshotEvents(mappedCandles, request.symbol),
                  !.isStreaming = TRUE,
                  !.last = MinuteOp("load", <<>>)]
  /\ UNCHANGED homeVars

\* page.tsx:1706-1714, fetchKlines after its fetchGraphQL rejected
MinuteLoadFailed(request) ==
  /\ request \in minute.load
  /\ minute' =
       IF request.cancelled
       THEN [minute EXCEPT !.load = @ \ {request},
                           !.last = MinuteOp("stale-load-failed", <<>>)]
       ELSE [minute EXCEPT
               !.load = @ \ {request},
               !.candles = <<>>,
               !.events = <<>>,
               !.isStreaming = FALSE,
               !.errorMessage = "klines-failed",
               !.last = MinuteOp("load-failed", <<>>)]
  /\ UNCHANGED homeVars

\* page.tsx:1747-1799, next of the subscription with a klineUpdated payload
MinuteSubscriptionNext(subscription, payload) ==
  /\ subscription \in minute.sub
  /\ minute' =
       IF ~subscription.active
       THEN [minute EXCEPT !.last = MinuteOp("inactive", <<>>)]
       ELSE IF mapKlineToCandle(payload) = <<>>
       THEN [minute EXCEPT !.last = MinuteOp("dropped", <<>>)]
       ELSE LET candle == mapKlineToCandle(payload)[1]
            IN [minute EXCEPT
                  !.candles = upsertMinuteCandle(@, candle),
                  !.events =
                    pushEvent(@, SubscriptionEvent(
                                   candle,
                                   symbolOr(payload.symbol,
                                            subscription.symbol))),
                  !.isStreaming = TRUE,
                  !.last = MinuteOp("update", <<candle>>)]
  /\ UNCHANGED homeVars

\* page.tsx:1752-1757, next with result.errors
MinuteSubscriptionErrors(subscription) ==
  /\ subscription \in minute.sub
  /\ minute' =
       IF ~subscription.active
       THEN [minute EXCEPT !.last = MinuteOp("inactive", <<>>)]
       ELSE [minute EXCEPT !.errorMessage = "subscription-errors",
                           !.isStreaming = FALSE,
                           !.last = MinuteOp("subscription-errors", <<>>)]
  /\ UNCHANGED homeVars

\* page.tsx:1759-1762, next without a payload
MinuteSubscriptionEmpty(subscription) ==
  /\ subscription \in minute.sub
  /\ minute' = [minute EXCEPT
                  !.last = MinuteOp(IF subscription.active THEN "no-payload"
                                    ELSE "inactive", <<>>)]
  /\ UNCHANGED homeVars

\* page.tsx:1800-1807, error of the subscription, which ends it
MinuteSubscriptionError(subscription) ==
  /\ subscription \in minute.sub
  /\ minute' =
       IF ~subscription.active
       THEN [minute EXCEPT !.sub = @ \ {subscription},
                           !.last = MinuteOp("inactive", <<>>)]
       ELSE [minute EXCEPT !.sub = @ \ {subscription},
                           !.isStreaming = FALSE,
                           !.errorMessage = "subscription-closed",
                           !.last = MinuteOp("subscription-error", <<>>)]
  /\ UNCHANGED homeVars

\* page.tsx:1808-1813, complete of the subscription
MinuteSubscriptionComplete(subscription) ==
  /\ subscription \in minute.sub
  /\ minute' =
       IF ~subscription.active
       THEN [minute EXCEPT !.sub = @ \ {subscription},
                           !.last = MinuteOp("inactive", <<>>)]
       ELSE [minute EXCEPT !.sub = @ \ {subscription},
                           !.isStreaming = FALSE,
                           !.last = MinuteOp("subscription-complete", <<>>)]
  /\ UNCHANGED homeVars

\* The one-minute page unmounts: the cleanups of its effects (page.tsx:
\* 1656-1658, 1719-1721, 1817-1820)
MinuteUnmount ==
  /\ minute.mounted
  /\ minute' = [MinuteCleanedUp(minute) EXCEPT
                  !.mounted = FALSE,
                  !.last = MinuteOp("unmount", <<>>)]
  /\ UNCHANGED homeVars

MinuteNext ==
  \/ \E activeSymbols \in MinuteSymbolLists : MinuteSymbolsLoaded(activeSymbols)
  \/ MinuteSymbolsFailed
  \/ \E nextSymbol \in MinuteSymbols : MinuteSymbolChange(nextSymbol)
  \/ \E request \in minute.load, rows \in MinuteRows :
       MinuteLoadSucceeded(request, rows)
  \/ \E request \in minute.load : MinuteLoadFailed(request)
  \/ \E subscription \in minute.sub, payload \in MinutePayloads :
       MinuteSubscriptionNext(subscription, payload)
  \/ \E subscription \in minute.sub : MinuteSubscriptionErrors(subscription)
  \/ \E subscription \in minute.sub : MinuteSubscriptionEmpty(subscription)
  \/ \E subscription \in minute.sub : MinuteSubscriptionError(subscription)
  \/ \E subscription \in minute.sub : MinuteSubscriptionComplete(subscription)
  \/ MinuteUnmount

MinuteSpec == Init /\ [][MinuteNext]_vars

\* ---------------------------------------------------------- the two feeds
\* Both backends answer in one behaviour, so that a response or a failure of
\* one feed arrives in every state of the other: the symbols query, the
\* symbol selector, the two snapshot loads, the end of the subscription and
\* the event stream.
FeedsInit == InitHome /\ backend = "both" /\ probe = NoProbe

FeedsNext ==
  \/ \E activeSymbols \in SymbolLists : SymbolsLoaded(activeSymbols)
  \/ \E nextSymbol \in Symbols : handleSymbolChange(nextSymbol)
  \/ \E request \in load, mapped \in PageKlineSnapshots :
       LoadSucceeded(request, mapped)
  \/ \E request \in load : LoadFailed(request)
  \/ \E subscription \in sub : SubscriptionErrors(subscription)
  \/ \E subscription \in sub : SubscriptionError(subscription)
  \/ \E subscription \in sub : SubscriptionComplete(subscription)
  \/ \E request \in binanceLoad, mappedCandles \in PageBinanceSnapshots :
       BinanceLoadSucceeded(request, mappedCandles)
  \/ \E request \in binanceLoad : BinanceLoadFailed(request)
  \/ \E src \in source : SourceOpened(src)
  \/ \E src \in source, payload \in PageStreamPayloads :
       SourceMessage(src, payload)
  \/ \E src \in source : SourceError(src)

FeedsSpec == FeedsInit /\ [][FeedsNext]_vars

\* --------------------------------------------------------------- the routes
\* The query parameters of a request to a Binance route.
RouteParams ==
  {[symbol |-> symbol, interval |-> interval] :
     symbol \in {"", "BTCUSDT"}, interval \in {"", "1m"}}

pageVars == <<selectionVars, internalVars, binanceVars, fixedVars, wsClient>>

\* controller.enqueue on the response of a request: a frame joins the
\* stream while it is open; on a cancelled or failed stream enqueue throws
\* and nothing is added.
Enqueue(request) ==
  IF request.state = "open" /\ request.frames < MaxFrames
  THEN [request EXCEPT !.frames = @ + 1]
  ELSE request

\* route.ts:25-92, GET of /api/binance/stream.  start runs inside the
\* ReadableStream constructor: the keep-alive timer is set, then ws.candles
\* subscribes; when it throws the constructor throws and the catch answers
\* 500.
StreamRouteGet(r, params, subscribes) ==
  /\ route[r].state = "none"
  /\ IF params.symbol = "" \/ params.interval = ""
     THEN /\ route' = [route EXCEPT ![r].state = "400"]
          /\ UNCHANGED <<client, handed>>
     ELSE /\ client' = getBinanceClient(client)
          /\ handed' = [handed EXCEPT
                          !.binance = @ \cup {getBinanceClient(client)[1]}]
          /\ route' = [route EXCEPT ![r] =
                         IF subscribes
                         THEN [state |-> "open", keepAlive |-> TRUE,
                               upstream |-> TRUE, subscribed |-> 1,
                               frames |-> 0]
                         ELSE [state |-> "500", keepAlive |-> TRUE,
                               upstream |-> FALSE, subscribed |-> 0,
                               frames |-> 0]]
  /\ UNCHANGED <<pageVars, lastOp>>

\* route.ts:56-67, the callback of ws.candles: send(...) enqueues a frame.
\* The library may still call it while the socket closes.
RouteCandle(r) ==
  /\ route[r].subscribed > 0
  /\ route' = [route EXCEPT ![r] = Enqueue(route[r])]
  /\ lastOp' = Event("route-candle", "binance")
  /\ UNCHANGED <<pageVars, client, handed>>

\* route.ts:52-54, the keep-alive timer ticks
RouteKeepAlive(r) ==
  /\ route[r].keepAlive
  /\ route' = [route EXCEPT ![r] = Enqueue(route[r])]
  /\ lastOp' = Event("route-keep-alive", "binance")
  /\ UNCHANGED <<pageVars, client, handed>>

\* cancel without clearInterval.
RouteCancelKeepsTimer(r) ==
  /\ route[r].state = "open"
  /\ route' = [route EXCEPT ![r].state = "cancelled", ![r].upstream = FALSE]
  /\ lastOp' = Event("route-cancel", "binance")
  /\ UNCHANGED <<pageVars, client, handed>>

\* route.ts:69-74, cancel of the response stream: cleanup?.() closes the
\* upstream subscription, clearInterval(keepAlive)
RouteCancel(r) ==
  /\ route[r].state = "open"
  /\ route' = [route EXCEPT ![r].state = "cancelled", ![r].upstream = FALSE,
                            ![r].keepAlive = FALSE]
  /\ lastOp' = Event("route-cancel", "binance")
  /\ UNCHANGED <<pageVars, client, handed>>

\* route.ts:100-128, GET of /api/binance/candles: getBinanceClient, then
\* client.candles answers or throws
CandlesRouteGet(params, answers) ==
  /\ lastOp' = Event(IF params.symbol = "" \/ params.interval = ""
                     THEN "candles-400"
                     ELSE IF answers THEN "candles-200" ELSE "candles-500",
                     "binance")
  /\ IF params.symbol = "" \/ params.interval = ""
     THEN UNCHANGED <<client, handed>>
     ELSE /\ client' = getBinanceClient(client)
          /\ handed' = [handed EXCEPT
                          !.binance = @ \cup {getBinanceClient(client)[1]}]
  /\ UNCHANGED <<pageVars, route>>

RouteNext ==
  \/ \E r \in Requests, params \in RouteParams, subscribes \in BOOLEAN :
       StreamRouteGet(r, params, subscribes)
  \/ \E r \in Requests : RouteCandle(r)
  \/ \E r \in Requests : RouteKeepAlive(r)
  \/ \E r \in Requests : RouteCancel(r)
  \/ \E params \in RouteParams, answers \in BOOLEAN :
       CandlesRouteGet(params, answers)

RouteSpec == Init /\ [][RouteNext]_vars

\* The getters under the calls the page and the routes make of them.
ClientsNext ==
  \/ \E activeSymbols \in SymbolLists : SymbolsLoaded(activeSymbols)
  \/ \E nextSymbol \in Symbols : handleSymbolChange(nextSymbol)
  \/ \E value \in {0} \cup Intervals : handleIntervalModeChange(value)
  \/ \E r \in Requests, params \in RouteParams, subscribes \in BOOLEAN :
       StreamRouteGet(r, params, subscribes)
  \/ \E params \in RouteParams, answers \in BOOLEAN :
       CandlesRouteGet(params, answers)

ClientsSpec == Init /\ [][ClientsNext]_vars

\* -------------------------------------------------------------- the mappers
\* The four mappers on their own, applied to one raw row.  A price is a
\* string that parses, does not parse, or parses to Infinity; a candle time is
\* a date (1), not a date (0) or null; a Binance open time is a number,
\* null or missing (undefined); the internal volume is a number or null, the
\* Binance volume a string.
RawPrices == {"1", "abc", "Infinity"}

InternalProbeRows ==
  {[interval |-> 1, candleTime |-> t, open |-> o, high |-> h, low |-> l,
    close |-> c, volume |-> v] :
     t \in {1, 0, Null}, o \in RawPrices, h \in RawPrices, l \in RawPrices,
     c \in RawPrices, v \in {5, Null}}

RestProbeRows ==
  {[openTime |-> t, open |-> o, high |-> h, low |-> l, close |-> c,
    volume |-> v] :
     t \in {1, Null, Undefined}, o \in RawPrices, h \in RawPrices,
     l \in RawPrices, c \in RawPrices, v \in {"1", "abc"}}

StreamProbeRows ==
  {[startTime |-> t, open |-> o, high |-> h, low |-> l, close |-> c,
    volume |-> v] :
     t \in {1, Null, Undefined}, o \in RawPrices, h \in RawPrices,
     l \in RawPrices, c \in RawPrices, v \in {"1", "abc"}}

ProbeOf(family, row) ==
  [family |-> family, function |-> "none", input |-> row, output |-> <<>>]

MapperInit ==
  /\ InitPage
  /\ \/ \E row \in InternalProbeRows : probe = ProbeOf("internal", row)
     \/ \E row \in RestProbeRows : probe = ProbeOf("rest", row)
     \/ \E row \in StreamProbeRows : probe = ProbeOf("stream", row)

Applied(function, output) ==
  /\ probe' = [probe EXCEPT !.function = function, !.output = output]
  /\ UNCHANGED <<selectionVars, internalVars, binanceVars, mounted, backend,
                 minute, lastOp, moduleVars>>

ApplySnapshotMapper ==
  /\ probe.family = "internal"
  /\ Applied("mapModelToCandle", mapModelToCandle(probe.input))

ApplySubscriptionMapper ==
  /\ probe.family = "internal"
  /\ Applied("mapSubscriptionKlineToCandle",
             mapSubscriptionKlineToCandle(probe.input))

ApplyRestMapper ==
  /\ probe.family = "rest"
  /\ Applied("mapBinanceRestCandle", mapBinanceRestCandle(probe.input))

ApplyStreamMapper ==
  /\ probe.family = "stream"
  /\ Applied("mapBinanceStreamCandle", mapBinanceStreamCandle(probe.input))

MapperNext ==
  \/ ApplySnapshotMapper
  \/ ApplySubscriptionMapper
  \/ ApplyRestMapper
  \/ ApplyStreamMapper

MapperSpec == MapperInit /\ [][MapperNext]_vars

\* ------------------------------------------------------ the interval selector
\* pickIntervalForRange on its own, applied to one visible range.  Ranges are
\* whole minutes up to past the widest range the coarsest option covers
\* (TARGET_BAR_COUNT * 240 = 43200).
MaxRangeMinutes == 43300

RangeMinutes == 0..MaxRangeMinutes

SelectorInit ==
  /\ InitPage
  /\ \E rangeMinutes \in RangeMinutes : probe = ProbeOf("range", rangeMinutes)

ApplySelector ==
  /\ probe.family = "range"
  /\ Applied("pickIntervalForRange", <<pickIntervalForRange(probe.input)>>)

SelectorNext == ApplySelector

SelectorSpec == SelectorInit /\ [][SelectorNext]_vars

\* ------------------------------------------------------- the series stores
\* The two buffers on their own: every update a handler makes to a buffer,
\* applied in any order and at any time (the requests, timers and
\* subscriptions that schedule the handlers are left out).  The two buffers
\* share no state and no handler reads the other feed's buffer, so a
\* behaviour exercises one of them.
InternalTurn == lastOp.feed \in {"none", "internal"}
BinanceTurn == lastOp.feed \in {"none", "binance"}

StoreLoadSucceeded(mapped) ==
  /\ InternalTurn
  /\ LoadApplied(mapped)
  /\ UNCHANGED <<selectionVars, internalControl, binanceVars, fixedVars, moduleVars>>

StoreLoadFailed ==
  /\ InternalTurn
  /\ LoadCleared
  /\ UNCHANGED <<selectionVars, internalControl, binanceVars, fixedVars, moduleVars>>

StoreRefreshSucceeded(refreshed) ==
  /\ InternalTurn
  /\ RefreshApplied(refreshed)
  /\ UNCHANGED <<selectionVars, internalControl, binanceVars, fixedVars, moduleVars>>

\* page.tsx:1027-1057: a payload of another interval or one that maps to null
\* is dropped; the candle is upserted when the selected interval is 1
StoreKlineUpdated(kline) ==
  /\ InternalTurn
  /\ kline.interval = selectedInterval
  /\ selectedInterval = 1
  /\ mapSubscriptionKlineToCandle(kline) # <<>>
  /\ KlineUpserted(mapSubscriptionKlineToCandle(kline)[1])
  /\ UNCHANGED <<selectionVars, internalControl, binanceVars, fixedVars, moduleVars>>

StoreBinanceLoaded(mappedCandles) ==
  /\ BinanceTurn
  /\ BinanceSnapshotApplied(mappedCandles)
  /\ UNCHANGED <<selectionVars, internalVars, binanceControl, fixedVars, moduleVars>>

StoreBinanceMisconfigured(message) ==
  /\ BinanceTurn
  /\ BinanceCleared(message)
  /\ UNCHANGED <<selectionVars, internalVars, binanceControl, fixedVars, moduleVars>>

\* page.tsx:934-956: the payload is mapped, a null candle is dropped
StoreStreamCandle(payload) ==
  /\ BinanceTurn
  /\ mapBinanceStreamCandle(payload) # <<>>
  /\ StreamUpserted(mapBinanceStreamCandle(payload)[1])
  /\ UNCHANGED <<selectionVars, internalVars, binanceControl, fixedVars, moduleVars>>

StoreNext ==
  \/ \E mapped \in KlineSnapshots : StoreLoadSucceeded(mapped)
  \/ StoreLoadFailed
  \/ \E refreshed \in KlineSnapshots : StoreRefreshSucceeded(refreshed)
  \/ \E kline \in KlinePayloads : StoreKlineUpdated(kline)
  \/ \E mappedCandles \in BinanceSnapshots : StoreBinanceLoaded(mappedCandles)
  \/ \E message \in {"unsupported-interval", "unknown-symbol"} :
       StoreBinanceMisconfigured(message)
  \/ \E payload \in StreamPayloads : StoreStreamCandle(payload)

StoreSpec == Init /\ [][StoreNext]_vars

\* The stores under upserts alone, from the empty buffers.
UpsertNext ==
  \/ \E kline \in KlinePayloads : StoreKlineUpdated(kline)
  \/ \E payload \in StreamPayloads : StoreStreamCandle(payload)

UpsertSpec == Init /\ [][UpsertNext]_vars

\* ------------------------------------------------------------------ claims
StrictlyAscending(buffer) ==
  \A i \in 1..(Len(buffer) - 1) : buffer[i].openTime < buffer[i + 1].openTime

\* C1: starting from the empty buffers, after any sequence of upserts each
\* buffer is sorted strictly ascending by openTime, so no two stored candles
\* share an openTime.
C1_UpsertsKeepSortedUnique ==
  /\ StrictlyAscending(candles)
  /\ StrictlyAscending(binanceCandles)

\* A full buffer whose oldest candle arrived last (out of order).
C1_Witness ==
  /\ lastOp.kind = "upsert"
  /\ lastOp.idx = 0
  /\ Len(candles) = MAX_CANDLES
  /\ candles[1] = lastOp.candle

\* C2: after any sequence of snapshot loads and upserts neither buffer holds
\* more than MAX_CANDLES candles.
C2_CapacityBound ==
  /\ Len(candles) <= MAX_CANDLES
  /\ Len(binanceCandles) <= MAX_CANDLES

\* A Binance buffer at capacity after an upsert that did not replace.
C2_Witness ==
  /\ lastOp.kind = "upsert"
  /\ lastOp.feed = "binance"
  /\ lastOp.idx = 0
  /\ lastOp.preLen = MAX_CANDLES
  /\ Len(binanceCandles) = MAX_CANDLES

Ascending(buffer) ==
  \A i \in 1..(Len(buffer) - 1) : buffer[i].openTime <= buffer[i + 1].openTime

\* A property R(previous, next, candle) of every upsert step, on the buffer
\* the step upserts into.
OnUpsert(R(_, _, _)) ==
  lastOp'.kind = "upsert" =>
    IF lastOp'.feed = "internal"
    THEN R(candles, candles', lastOp'.candle)
    ELSE R(binanceCandles, binanceCandles', lastOp'.candle)

\* The candles the series store is specified to keep: the candle replaces the
\* stored one of its openTime or is added, the list is sorted ascending and the
\* oldest entries beyond the capacity are dropped.
NewestKept(previous, candle) ==
  LET idx == findIndex(previous, candle.openTime)
      merged == IF idx # 0 THEN [previous EXCEPT ![idx] = candle]
                ELSE SortByOpenTime(Append(previous, candle))
  IN IF Len(merged) <= MAX_CANDLES THEN merged
     ELSE SubSeq(merged, Len(merged) - MAX_CANDLES + 1, Len(merged))

C3_Rel(previous, next, candle) ==
  (StrictlyAscending(previous) /\ Len(previous) = MAX_CANDLES)
    => next = NewestKept(previous, candle)

\* C3: an upsert on a buffer at capacity keeps exactly the MAX_CANDLES candles
\* with the greatest openTime among the stored candles and the incoming one,
\* whatever the incoming openTime; only the oldest entries are evicted.
C3_EvictsOnlyOldest == [][OnUpsert(C3_Rel)]_vars

C4_Rel(previous, next, candle) ==
  (/\ Ascending(previous)
   /\ Len(previous) = MAX_CANDLES
   /\ \A i \in 1..Len(previous) : previous[i].openTime < candle.openTime)
    => next = Append(Tail(previous), candle)

\* C4: an upsert whose openTime is greater than every stored one, on a sorted
\* buffer holding exactly MAX_CANDLES candles, yields the previous buffer
\* without its first candle followed by the new candle.
C4_NewestEvictsFirst == [][OnUpsert(C4_Rel)]_vars

\* A full buffer after an upsert that did not replace and went last.
C4_Witness ==
  /\ lastOp.kind = "upsert"
  /\ lastOp.feed = "internal"
  /\ lastOp.idx = 0
  /\ lastOp.preLen = MAX_CANDLES
  /\ Len(candles) = MAX_CANDLES
  /\ StrictlyAscending(candles)
  /\ candles[MAX_CANDLES] = lastOp.candle

C5_Rel(previous, next, candle) ==
  LET idx == findIndex(previous, candle.openTime)
  IN idx # 0 =>
       /\ Len(next) = Len(previous)
       /\ next[idx] = candle
       /\ \A j \in 1..Len(previous) : j # idx => next[j] = previous[j]

\* C5: an upsert whose openTime is stored replaces that candle at the same
\* index with the incoming values: the length and every other element are
\* unchanged, and the values stored are those of the upsert that arrived last.
C5_ReplacesInPlace == [][OnUpsert(C5_Rel)]_vars

\* An upsert replaced other values at the first of several positions.
C5_Witness ==
  /\ lastOp.kind = "upsert"
  /\ lastOp.feed = "internal"
  /\ lastOp.changed
  /\ lastOp.idx = 1
  /\ Len(candles) = MAX_CANDLES
  /\ candles[1] = lastOp.candle

\* C6: upsert is idempotent: for every reachable buffer and every candle,
\* upserting the candle twice in a row gives the buffer that upserting it once
\* gives.
C6_UpsertIdempotent ==
  /\ \A kline \in KlinePayloads :
       \A c \in Range(mapSubscriptionKlineToCandle(kline)) :
         UpsertCandles(UpsertCandles(candles, c), c) = UpsertCandles(candles, c)
  /\ \A payload \in StreamPayloads :
       \A c \in Range(mapBinanceStreamCandle(payload)) :
         UpsertBinanceCandles(UpsertBinanceCandles(binanceCandles, c), c)
           = UpsertBinanceCandles(binanceCandles, c)

\* The same candle was upserted twice in a row into a buffer of several.
C6_Witness ==
  /\ lastOp.kind = "upsert"
  /\ lastOp.feed = "internal"
  /\ lastOp.repeat
  /\ Len(candles) = MAX_CANDLES
  /\ lastOp.candle \in Range(candles)

\* next is previous with candle put in at one position.
InsertedInto(previous, next, candle) ==
  /\ Len(next) = Len(previous) + 1
  /\ \E k \in 1..Len(next) :
       /\ next[k] = candle
       /\ \A j \in 1..Len(previous) :
            previous[j] = next[IF j < k THEN j ELSE j + 1]

C7_Rel(previous, next, candle) ==
  /\ (/\ Ascending(previous)
      /\ Len(previous) < MAX_CANDLES
      /\ findIndex(previous, candle.openTime) = 0)
       => /\ InsertedInto(previous, next, candle)
          /\ Ascending(next)
  /\ Len(previous) = 0 => next = <<candle>>

C8_ReseedReplaces ==
  [][lastOp'.kind = "reseed" =>
       IF lastOp'.feed = "internal"
       THEN /\ candles' = lastOp'.mapped
            /\ errorMessage' = errorMessage
       ELSE /\ binanceCandles' = lastOp'.mapped
            /\ binanceStatus' = binanceStatus
            /\ binanceErrorMessage' = binanceErrorMessage]_vars

\* An empty snapshot was applied to a buffer that held candles.
C8_Witness ==
  /\ lastOp.kind = "reseed"
  /\ lastOp.feed = "internal"
  /\ lastOp.preLen > 0
  /\ lastOp.mapped = <<>>
  /\ candles = <<>>
  /\ errorMessage = "null"

\* C9: for both snapshot sources the buffer seeded from a snapshot is sorted
\* ascending by openTime, whatever the order of the rows in the response.
C9_SeededSorted ==
  lastOp.kind = "reseed" =>
    IF lastOp.feed = "internal" THEN Ascending(candles)
    ELSE Ascending(binanceCandles)

UniqueOpenTimes(buffer) ==
  \A i, j \in 1..Len(buffer) :
    buffer[i].openTime = buffer[j].openTime => i = j

\* C10: for both snapshot sources the buffer seeded from a snapshot holds no
\* two candles with the same openTime, also when rows repeat an open time, so
\* openTimes are unique after every reseed and every upsert that follows.
C10_SeededUnique ==
  lastOp.kind \in {"reseed", "upsert"} =>
    IF lastOp.feed = "internal" THEN UniqueOpenTimes(candles)
    ELSE UniqueOpenTimes(binanceCandles)

\* Number.isFinite on the values of the model.
IsFiniteNumber(x) == x \notin {NaN, Infinity, Null, Undefined}

\* C12: no mapper yields a candle to store unless openTime, open, high, low
\* and close are each a finite number; a row with an infinite value or a
\* missing openTime / startTime is discarded.
C12_OnlyFiniteStored ==
  (probe.function # "none" /\ probe.output # <<>>) =>
    LET candle == probe.output[1]
    IN /\ IsFiniteNumber(candle.openTime)
       /\ IsFiniteNumber(candle.open)
       /\ IsFiniteNumber(candle.high)
       /\ IsFiniteNumber(candle.low)
       /\ IsFiniteNumber(candle.close)

\* C13: a row whose volume is null is stored with volume undefined, and the
\* internal snapshot mapper and the internal subscription mapper give the same
\* candle for the same row.
C13_VolumeAbsentEitherMapper ==
  probe.function \in {"mapModelToCandle", "mapSubscriptionKlineToCandle"} =>
    /\ (probe.output # <<>> /\ probe.input.volume = Null)
         => probe.output[1].volume = Undefined
    /\ probe.output = mapModelToCandle(probe.input)

\* C15: in every reachable state of both buffers, latest is the stored candle
\* with the greatest openTime, and is none exactly when the buffer is empty.
C15_LatestIsNewest ==
  \A buffer \in {candles, binanceCandles} :
    /\ latest(buffer) = <<>> <=> Len(buffer) = 0
    /\ Len(buffer) > 0 =>
         /\ latest(buffer)[1] \in Range(buffer)
         /\ \A c \in Range(buffer) : c.openTime <= latest(buffer)[1].openTime

\* C16: pickIntervalForRange returns the first entry of the ladder
\* [1,3,5,15,30,60,120,240], in that order, for which range / entry <= 180,
\* and 240 when no entry satisfies it; a 60-minute range gives 1.
C16_FirstLadderEntry ==
  probe.function = "pickIntervalForRange" =>
    LET ladder == <<1, 3, 5, 15, 30, 60, 120, 240>>
        range == probe.input
        picked == probe.output[1]
        Fits(i) == range <= 180 * ladder[i]
    IN /\ IF \E i \in 1..8 : Fits(i)
          THEN \E i \in 1..8 :
                 /\ picked = ladder[i]
                 /\ Fits(i)
                 /\ \A j \in 1..(i - 1) : ~Fits(j)
          ELSE picked = 240
       /\ range = 60 => picked = 1

\* A range no ladder entry covers within 180 bars was given 240.
C16_Witness ==
  /\ probe.function = "pickIntervalForRange"
  /\ probe.input > 180 * 240
  /\ probe.output = <<240>>

\* The bar target holds for granularity g on the probed range.
WithinTarget(g) == probe.input <= TARGET_BAR_COUNT * g

LadderEntries == Range(INTERVAL_OPTIONS)

\* C17 as stated: for every visible range the selector returns the coarsest
\* ladder granularity whose bar count does not exceed the target.
C17_CoarsestWithinTarget ==
  probe.function = "pickIntervalForRange" =>
    /\ probe.output[1] \in LadderEntries
    /\ WithinTarget(probe.output[1])
    /\ \A g \in LadderEntries : WithinTarget(g) => g <= probe.output[1]

\* C17 amended: for every visible range the selector returns the finest
\* ladder granularity whose bar count does not exceed the target, and the
\* coarsest granularity when none does.
C17_FinestWithinTarget ==
  probe.function = "pickIntervalForRange" =>
    /\ probe.output[1] \in LadderEntries
    /\ IF \E g \in LadderEntries : WithinTarget(g)
       THEN /\ WithinTarget(probe.output[1])
            /\ \A g \in LadderEntries : WithinTarget(g) => probe.output[1] <= g
       ELSE \A g \in LadderEntries : g <= probe.output[1]

\* A range that the finer granularities do not cover and several coarser
\* ones do was given the finest of those.
C17_Witness ==
  /\ probe.function = "pickIntervalForRange"
  /\ probe.output = <<15>>
  /\ ~WithinTarget(5)
  /\ WithinTarget(240)

\* One of the five parsed fields of a live payload is NaN.
UnparsableKline(kline) ==
  \/ IsNaN(DateParse(kline.candleTime))
  \/ \E price \in {kline.open, kline.high, kline.low, kline.close} :
       IsNaN(parseFloat(price))

UnparsableFrame(payload) ==
  \E price \in {payload.open, payload.high, payload.low, payload.close} :
    IsNaN(parseFloat(price))

\* C11: a live payload in which open, high, low, close or the candle time
\* does not parse to a number is dropped: the buffer, the status and the error
\* message stay as they were, and the subscription or event stream stays
\* live, so later payloads are still processed.
C11_UnparsableDropped ==
  [][/\ \A subscription \in sub, kline \in PageKlinePayloads :
          (UnparsableKline(kline) /\ SubscriptionNext(subscription, kline))
            => UNCHANGED <<candles, isStreaming, errorMessage, refreshTimeout,
                           refreshInFlight, sub>>
     /\ \A src \in source, payload \in PageStreamPayloads :
          (UnparsableFrame(payload) /\ SourceMessage(src, payload))
            => UNCHANGED <<binanceCandles, binanceStatus, binanceErrorMessage,
                           source>>]_vars

\* A payload was dropped while the buffer held candles and the subscription
\* was live.
C11_Witness ==
  /\ lastOp.kind = "dropped"
  /\ lastOp.feed = "internal"
  /\ Len(candles) > 0
  /\ NewSubscription \in sub
  /\ errorMessage = "null"

\* C14: a subscription payload whose interval differs from the selected
\* interval changes nothing: the buffer, the streaming status and the error
\* message are unchanged and no silent refresh is scheduled.
C14_OtherIntervalIgnored ==
  [][\A subscription \in sub, kline \in PageKlinePayloads :
       (kline.interval # selectedInterval
          /\ SubscriptionNext(subscription, kline))
         => UNCHANGED <<candles, isStreaming, errorMessage, refreshTimeout,
                        refreshInFlight>>]_vars

\* A payload of another interval was ignored while an aggregated interval was
\* selected, candles were shown and no refresh was pending.
C14_Witness ==
  /\ lastOp.kind = "ignored"
  /\ selectedInterval # 1
  /\ Len(candles) > 0
  /\ refreshTimeout = <<>>

\* C18: once the selection has changed, the response of an initial snapshot
\* request issued before the change, success or failure, changes neither the
\* buffer nor the status nor the error message, for the internal load and for
\* the Binance REST load.
C18_StaleLoadIgnored ==
  [][/\ \A request \in load :
          (/\ request.stale
           /\ \/ \E mapped \in PageKlineSnapshots :
                   LoadSucceeded(request, mapped)
              \/ LoadFailed(request))
            => UNCHANGED <<candles, isStreaming, errorMessage>>
     /\ \A request \in binanceLoad :
          (/\ request.stale
           /\ \/ \E mappedCandles \in PageBinanceSnapshots :
                   BinanceLoadSucceeded(request, mappedCandles)
              \/ BinanceLoadFailed(request))
            => UNCHANGED <<binanceCandles, binanceStatus, binanceErrorMessage,
                           source>>]_vars

\* The response of a cancelled Binance load arrived while the load of the
\* new selection was still awaited.
C18_Witness ==
  /\ lastOp.kind = "stale-load"
  /\ lastOp.feed = "binance"
  /\ mounted
  /\ NewRequest \in binanceLoad
  /\ binanceStatus = "connecting"

\* C19: the response of a silent refresh requested under a selection that is
\* no longer the current one does not modify the candle buffer.
C19_StaleRefreshIgnored ==
  [][\A selection \in refreshInFlight, refreshed \in PageKlineSnapshots :
       (selection # Current /\ RefreshSucceeded(selection, refreshed))
         => candles' = candles]_vars

\* C20: nothing of a previous selection is left live: no subscription and no
\* event stream created under it remains, no debounce timer scheduled under
\* it is pending; at most one subscription and one event stream are open;
\* after unmount none is, and no timer is pending.
C20_NothingOrphaned ==
  /\ \A subscription \in sub : ~subscription.stale
  /\ \A src \in source : ~src.stale
  /\ refreshTimeout # <<>> => refreshTimeout[1] = Current
  /\ Cardinality(sub) <= 1
  /\ Cardinality(source) <= 1
  /\ ~mounted => (sub = {} /\ source = {} /\ refreshTimeout = <<>>)

\* A selection change tore down a subscription and a pending timer and left
\* one subscription, that of the new selection.
C20_Witness ==
  /\ lastOp.kind = "select"
  /\ lastOp.closed >= 2
  /\ sub = {NewSubscription}
  /\ refreshTimeout = <<>>

\* C21: the internal buffer never holds candles obtained for two selections.
\* Checked on the step that directly follows a selection change: when that
\* step is an upsert delivered by the new selection's subscription, the buffer
\* after it holds the upserted candle and nothing left over from before.
C21_UpsertNotMergedIntoLeftovers ==
  [][\A subscription \in sub, kline \in PageKlinePayloads :
       (/\ lastOp.kind = "select"
        /\ subscription.active /\ ~subscription.stale
        /\ SubscriptionNext(subscription, kline)
        /\ lastOp'.kind = "upsert")
         => candles' = mapSubscriptionKlineToCandle(kline)]_vars

\* C22: a response is a load failure exactly when its status is not 2xx, it
\* carries GraphQL errors or it has no data; when the initial load of the
\* current selection fails the buffer becomes empty, isStreaming false and
\* the error message set, and the failure issues no request and sets no
\* timer.  A snapshot request is issued only by a selection change or by the
\* debounce timer firing, and the timer is set only by a subscription update.
C22_LoadFailureClears ==
  [][/\ \A response \in GraphQLResponses :
          fetchGraphQL(response).threw
            <=> (~response.ok \/ response.errors > 0 \/ response.data = <<>>)
     /\ \A request \in load :
          (~request.cancelled /\ LoadFailed(request))
            => /\ candles' = <<>>
               /\ isStreaming' = FALSE
               /\ errorMessage' = "klines-failed"
               /\ load' \subseteq load
               /\ UNCHANGED <<refreshTimeout, refreshInFlight, sub>>
     /\ (NewRequest \in load' /\ NewRequest \notin load) => Current' # Current
     /\ ~(refreshInFlight' \subseteq refreshInFlight)
          => (refreshTimeout # <<>> /\ lastOp'.kind = "refresh-requested")
     /\ (refreshTimeout = <<>> /\ refreshTimeout' # <<>>)
          => lastOp'.kind = "refresh-queued"]_vars

\* The initial load failed with candles in the buffer.
C22_Witness ==
  /\ lastOp.kind = "clear"
  /\ lastOp.feed = "internal"
  /\ lastOp.preLen > 0
  /\ candles = <<>>
  /\ errorMessage = "klines-failed"

\* C23: when the Binance REST load of the current selection fails, the
\* Binance buffer is emptied and the Binance status becomes error.
C23_BinanceFailureClears ==
  [][\A request \in binanceLoad :
       (~request.cancelled /\ BinanceLoadFailed(request))
         => (binanceCandles' = <<>> /\ binanceStatus' = "error")]_vars

\* C24: once the subscription of the current selection has reported an error
\* or has completed (it is no longer among the live subscriptions while a
\* symbol is selected and Home is mounted), isStreaming is false and stays
\* false until the selection changes.
C24_EndedSubscriptionStaysOffline ==
  (mounted /\ selectedSymbol # "" /\ sub = {}) => ~isStreaming

\* C25: after a stream error (the message of onerror is displayed) the event
\* source is closed, the Binance status is error and no REST load that could
\* open a new source is awaited; and every step that keeps the selection
\* leaves the Binance buffer, status, message and sources as they are.
C25_StreamErrorIsTerminal ==
  /\ [](binanceErrorMessage = "binance-stream-lost"
          => /\ binanceStatus = "error"
             /\ source = {}
             /\ \A request \in binanceLoad : request.cancelled)
  /\ [][(binanceErrorMessage = "binance-stream-lost" /\ Current' = Current)
          => UNCHANGED <<binanceCandles, binanceStatus, binanceErrorMessage,
                         source>>]_vars

\* The stream of a selection with candles in the buffer has just failed.
C25_Witness ==
  /\ lastOp.kind = "source-error"
  /\ binanceErrorMessage = "binance-stream-lost"
  /\ binanceCandles # <<>>
  /\ mounted

\* A selection the exchange cannot be asked for: the interval has no code in
\* BINANCE_INTERVAL_MAP, or the symbol holds no letter or digit.
NotOnExchange(selection) ==
  /\ selection.symbol # ""
  /\ \/ BinanceIntervalCode(selection.interval) = ""
     \/ selection.symbol = "--"

\* C26: while the selection has no exchange interval code or its symbol
\* normalizes to the empty string, the Binance status is error with a
\* message, the Binance buffer is empty, and neither a REST request nor an
\* event stream of that selection exists.
C26_MisconfiguredNeverRequested ==
  NotOnExchange(Current)
    => /\ binanceStatus = "error"
       /\ binanceErrorMessage \in {"unsupported-interval", "unknown-symbol"}
       /\ binanceCandles = <<>>
       /\ \A request \in binanceLoad : request.cancelled /\ request.stale
       /\ source = {}

\* A symbol without letters or digits was selected while a subscription and
\* an event stream of the previous selection were live.
C26_Witness ==
  /\ NotOnExchange(Current)
  /\ Answers("binance")
  /\ lastOp.kind = "select"
  /\ lastOp.closed >= 2
  /\ binanceErrorMessage = "unknown-symbol"

\* C27: the two feeds are isolated.  A failure of the internal feed (a failed
\* snapshot load, errors in a subscription result, a subscription error or
\* completion) leaves the Binance buffer, status and message unchanged; a
\* failure of the Binance feed (a failed REST load, a stream error) leaves the
\* internal buffer, streaming status and error message unchanged; and the
\* selection of a symbol the exchange cannot be asked for leaves the internal
\* buffer unchanged and starts the internal load and subscription as for any
\* selection.
C27_FeedsIsolated ==
  [][/\ \A request \in load :
          LoadFailed(request)
            => UNCHANGED <<binanceCandles, binanceStatus, binanceErrorMessage>>
     /\ \A subscription \in sub :
          (\/ SubscriptionErrors(subscription)
           \/ SubscriptionError(subscription)
           \/ SubscriptionComplete(subscription))
            => UNCHANGED <<binanceCandles, binanceStatus, binanceErrorMessage>>
     /\ \A request \in binanceLoad :
          BinanceLoadFailed(request)
            => UNCHANGED <<candles, isStreaming, errorMessage>>
     /\ \A src \in source :
          SourceError(src) => UNCHANGED <<candles, isStreaming, errorMessage>>
     /\ (Current' # Current /\ NotOnExchange(Current'))
          => /\ candles' = candles
             /\ isStreaming' = FALSE
             /\ errorMessage' = "null"
             /\ NewRequest \in load'
             /\ NewSubscription \in sub']_vars

\* The internal load failed while the Binance feed was connected with candles
\* in its buffer.
C27_Witness ==
  /\ lastOp.kind = "clear"
  /\ lastOp.feed = "internal"
  /\ binanceStatus = "connected"
  /\ binanceCandles # <<>>
  /\ errorMessage = "klines-failed"

\* C28: at most one debounce timeout is pending, and it is the one
\* refreshTimeoutRef designates; an update of a coarse interval that arrives
\* while a timeout is pending sets none; and a silent-refresh request is
\* issued only by a step in which a pending timeout fires, one request for
\* the one timeout.
C28_OneTimerPending ==
  /\ [](Len(timers) <= 1 /\ timers = refreshTimeout)
  /\ [][/\ \A subscription \in sub, kline \in PageKlinePayloads :
             (timers # <<>> /\ SubscriptionNext(subscription, kline))
               => UNCHANGED <<refreshTimeout, timers>>
        /\ ~(refreshInFlight' \subseteq refreshInFlight)
             => /\ Len(timers') = Len(timers) - 1
                /\ Cardinality(refreshInFlight' \ refreshInFlight) = 1]_vars

\* A valid update of the selected coarse interval arrived while a timeout
\* was pending, and the timeout is still the only one.
C28_Witness ==
  /\ lastOp.kind = "refresh-pending"
  /\ Len(timers) = 1
  /\ selectedInterval # 1

\* C29: while the selected interval is not 1, a valid update of that interval
\* leaves the candle buffer as it is, and a step that changes the buffer is
\* the answer to a snapshot request (a reseed, or the clear of a failed
\* load); while the selected interval is 1, no timeout is pending.
C29_CoarseUpdatesOnlyRefresh ==
  /\ [](selectedInterval = 1 => (timers = <<>> /\ refreshTimeout = <<>>))
  /\ [][/\ \A subscription \in sub, kline \in PageKlinePayloads :
             (/\ selectedInterval # 1
              /\ subscription.active
              /\ kline.interval = selectedInterval
              /\ ~UnparsableKline(kline)
              /\ SubscriptionNext(subscription, kline))
               => candles' = candles
        /\ (selectedInterval # 1 /\ candles' # candles)
             => lastOp'.kind \in {"reseed", "clear"}]_vars

\* A valid update of the selected coarse interval arrived with candles in the
\* buffer and set the timeout.
C29_Witness ==
  /\ lastOp.kind = "refresh-queued"
  /\ selectedInterval # 1
  /\ candles # <<>>
  /\ timers # <<>>

\* C30: a valid update of the selected interval received while that interval
\* is not 1 is eventually followed by a silent-refresh request for the
\* current selection, unless the selection changes or Home unmounts first.
C30_CoarseUpdateLeadsToRequest ==
  (lastOp.kind \in {"refresh-queued", "refresh-pending"})
    ~> (\/ lastOp.kind = "refresh-requested" /\ Current \in refreshInFlight
        \/ lastOp.kind = "select"
        \/ ~mounted)

\* The request of a silent refresh for the current selection has just been
\* issued by the timeout an update had set.
C30_Witness ==
  /\ lastOp.kind = "refresh-requested"
  /\ Current \in refreshInFlight
  /\ selectedInterval # 1
  /\ mounted

\* C31: a failed silent-refresh request changes nothing: the candle buffer,
\* isStreaming and the error message are as before the failure, and the
\* failure sets no timeout and issues no request.
C31_RefreshFailureSwallowed ==
  [][\A selection \in refreshInFlight :
       RefreshFailed(selection)
         => /\ UNCHANGED <<candles, isStreaming, errorMessage, refreshTimeout,
                           timers, load>>
            /\ refreshInFlight' \subseteq refreshInFlight]_vars

\* A silent refresh failed while the feed was streaming with candles in the
\* buffer.
C31_Witness ==
  /\ lastOp.kind = "refresh-failed"
  /\ candles # <<>>
  /\ isStreaming
  /\ errorMessage = "null"
  /\ mounted

\* C32: an event stream is opened only by the step in which the exchange
\* snapshot of the current selection arrives and seeds the Binance buffer; a
\* failed snapshot and the snapshot of an earlier selection open none.  While
\* an event stream exists the snapshot of the current selection is no longer
\* awaited, so a stream candle is applied after it; and the Binance status is
\* connected only while a stream that has reported open exists.
C32_StreamAfterSnapshot ==
  /\ [](/\ source # {} => \A request \in binanceLoad : request.cancelled
        /\ (mounted /\ binanceStatus = "connected")
             => \E src \in source : src.state = "open")
  /\ [][/\ (NewSource \in source' /\ NewSource \notin source)
             => /\ lastOp'.kind = "reseed"
                /\ lastOp'.feed = "binance"
                /\ binanceCandles' = lastOp'.mapped
                /\ \E request \in binanceLoad :
                     ~request.stale /\ ~request.cancelled
        /\ \A request \in binanceLoad :
             /\ BinanceLoadFailed(request) => source' = source
             /\ \A mappedCandles \in PageBinanceSnapshots :
                  (request.stale
                     /\ BinanceLoadSucceeded(request, mappedCandles))
                    => (source' = source /\ binanceCandles' = binanceCandles)
        /\ (lastOp'.kind = "upsert" /\ lastOp'.feed = "binance")
             => \E src \in source : src.state = "open" /\ ~src.stale]_vars

\* A stream candle was applied on a connected stream, after the snapshot.
C32_Witness ==
  /\ lastOp.kind = "upsert"
  /\ lastOp.feed = "binance"
  /\ binanceStatus = "connected"
  /\ \E src \in source : src.state = "open"
  /\ binanceLoad = {}

\* C33: once the response stream of a request is cancelled, its upstream
\* subscription is closed and its keep-alive timer cleared, and no frame is
\* enqueued on it afterwards; a request opens at most one upstream
\* subscription, and exactly one when it streams.
C33_CancelReleasesRoute ==
  /\ [](\A r \in Requests :
          /\ route[r].state = "cancelled"
               => (~route[r].upstream /\ ~route[r].keepAlive)
          /\ route[r].subscribed <= 1
          /\ route[r].state \in {"open", "cancelled"}
               => route[r].subscribed = 1)
  /\ [][\A r \in Requests :
          route[r].state = "cancelled" => route'[r] = route[r]]_vars

\* A response that had carried frames was cancelled, and the library called
\* the candle callback afterwards.
C33_Witness ==
  /\ lastOp.kind = "route-candle"
  /\ \A r \in Requests : route[r].state \in {"none", "cancelled"}
  /\ \E r \in Requests : route[r].state = "cancelled" /\ route[r].frames > 0

\* C34: getWsClient and getBinanceClient each build at most one client, every
\* call returns the same instance, and no client exists before the first
\* call.
C34_ClientsAreSingletons ==
  /\ wsClient \in {<<>>, <<1>>}
  /\ client \in {<<>>, <<1>>}
  /\ Cardinality(handed.ws) <= 1
  /\ Cardinality(handed.binance) <= 1
  /\ handed.ws = Range(wsClient)
  /\ handed.binance = Range(client)

\* Both getters were called more than once.
C34_Witness ==
  /\ wsClient = <<1>>
  /\ client = <<1>>
  /\ lastOp.kind = "select"
  /\ Cardinality({r \in Requests : route[r].state \in {"open", "500"}}) >= 2

\* C37: when subscribing to the upstream stream fails and the route answers
\* 500, no keep-alive timer of that request is running.
C37_FailedOpenLeavesNoTimer ==
  \A r \in Requests : route[r].state = "500" => ~route[r].keepAlive

\* C35: at most one silent-refresh request is in flight at a time, so the
\* results are applied in the order the requests were issued: the debounce
\* timer issues a request only while no earlier request is awaited.
C35_OneRefreshInFlight ==
  [][RefreshTimerFired => refreshInFlight = {}]_vars

\* C36: on the internal feed a streaming status of true implies that no
\* error message is set.
C36_StreamingWithoutError ==
  isStreaming => errorMessage = "null"

\* C38: in fixed interval mode a range notification never changes the
\* selected interval; in auto mode it changes it only when the range is
\* positive and the buffer is not empty, and then to
\* pickIntervalForRange(range in minutes); switching the mode to auto sets
\* the selected interval to 1.
C38_RangeFollowsMode ==
  [][/\ \A rangeMinutes \in ZoomRanges :
          handleZoomRangeChange(rangeMinutes)
            => selectedInterval' =
                 IF intervalMode = 0 /\ rangeMinutes > 0 /\ Len(candles) > 0
                 THEN pickIntervalForRange(rangeMinutes)
                 ELSE selectedInterval
     /\ handleIntervalModeChange(0)
          => (intervalMode' = 0 /\ selectedInterval' = 1)]_vars

\* In auto mode, with one symbol to choose from, a range notification moved
\* the selection to a coarser interval.
C38_Witness ==
  /\ intervalMode = 0
  /\ symbolOptions = {"btc"}
  /\ selectedInterval = 3
  /\ lastOp.kind = "select"
  /\ Len(candles) > 0

\* The ranges the probed range is compared with: the range one minute
\* shorter, the collapsed range and the widest range each ladder entry covers
\* within the bar target, as far as they do not exceed the probed range.
ShorterRanges ==
  {r1 \in {0, probe.input - 1}
            \cup {TARGET_BAR_COUNT * g : g \in LadderEntries} :
     0 <= r1 /\ r1 <= probe.input}

\* C39: pickIntervalForRange is monotone, for non-negative ranges r1 <= r2
\* the interval chosen for r1 is at most the interval chosen for r2, and its
\* result is a member of the ladder.  With r2 the probed range and r1 the
\* range one minute shorter, the property extends to every pair of ranges by
\* induction.
C39_SelectorMonotone ==
  probe.function = "pickIntervalForRange" =>
    /\ probe.output[1] \in LadderEntries
    /\ \A r1 \in ShorterRanges :
         /\ pickIntervalForRange(r1) \in LadderEntries
         /\ pickIntervalForRange(r1) <= probe.output[1]

\* The selector was applied to the first range that needs a coarser interval
\* than the range one minute shorter.
C39_Witness ==
  /\ probe.function = "pickIntervalForRange"
  /\ probe.input = TARGET_BAR_COUNT * 60 + 1
  /\ probe.output = <<120>>
  /\ pickIntervalForRange(probe.input - 1) = 60

\* C40: on the one-minute page, after any sequence of snapshot loads and
\* subscription updates the recent-events list holds at most 6 entries, no
\* two entries share an id, and after an update its first entry is the candle
\* of the most recently received update.
C40_RecentEvents ==
  /\ Len(minute.events) <= 6
  /\ \A i \in 1..Len(minute.events), j \in 1..Len(minute.events) :
       i # j => minute.events[i].id # minute.events[j].id
  /\ minute.last.kind = "update" =>
       /\ Len(minute.events) > 0
       /\ minute.events[1].openTime = minute.last.candle[1].openTime
       /\ minute.events[1].close = minute.last.candle[1].close

====
